---- MODULE Spec2Model ----
(***************************************************************************)
(* Model of the mongo-query-optimiser core:                                *)
(*   src/mongo_optimiser/db_utils.py  (normaliser, signature, grouping,    *)
(*                                     representative, metadata cache,     *)
(*                                     explain-plan builder)               *)
(*   src/mongo_optimiser/main.py      (run)                                *)
(*                                                                         *)
(* Values.  A Python/BSON value is a record tagged by k:                   *)
(*   [k |-> "none"]                                  None                  *)
(*   [k |-> "absent"]                                key not in the dict   *)
(*   [k |-> "scalar", ty |-> T, lit |-> L]           T = type(v).__name__  *)
(*   [k |-> "dict", items |-> <<[key, val], ...>>]   in insertion order    *)
(*   [k |-> "list", items |-> <<v1, ...>>]                                 *)
(* Strings that the code splits or concatenates (namespaces, database and  *)
(* collection names, cache keys) are sequences of tokens: a token is "."   *)
(* or a maximal run of characters without a dot.                           *)
(***************************************************************************)
EXTENDS Integers, Sequences, FiniteSets, TLC

None == [k |-> "none"]
Absent == [k |-> "absent"]
Scalar(ty, lit) == [k |-> "scalar", ty |-> ty, lit |-> lit]
Str(s) == Scalar("str", s)
IntV(s) == Scalar("int", s)
BoolV(s) == Scalar("bool", s)
Dict(items) == [k |-> "dict", items |-> items]
List(items) == [k |-> "list", items |-> items]
KV(key, val) == [key |-> key, val |-> val]
D1(k1, v1) == Dict(<<KV(k1, v1)>>)
D2(k1, v1, k2, v2) == Dict(<<KV(k1, v1), KV(k2, v2)>>)

RECURSIVE JoinTokens(_)
JoinTokens(t) == IF t = <<>> THEN "" ELSE Head(t) \o JoinTokens(Tail(t))

\* a namespace string, kept with its tokens
NsStr(t) == [k |-> "scalar", ty |-> "str", lit |-> JoinTokens(t), toks |-> t]

\* dict.get(key, default) on an encoded record field: Absent is the missing key
Get(v, default) == IF v = Absent THEN default ELSE v

\* Python truthiness of a value
Truthy(v) ==
    CASE v.k = "none" -> FALSE
      [] v.k = "absent" -> FALSE
      [] v.k = "dict" -> Len(v.items) > 0
      [] v.k = "list" -> Len(v.items) > 0
      [] v.k = "scalar" ->
            CASE v.ty = "str" -> v.lit # ""
              [] v.ty = "bool" -> v.lit = "true"
              [] v.ty = "int" -> v.lit # "0"
              [] OTHER -> v.lit # "0.0"

\* type(value).__name__
TypeName(v) ==
    CASE v.k = "none" -> "NoneType"
      [] v.k = "dict" -> "dict"
      [] v.k = "list" -> "list"
      [] OTHER -> v.ty

ComparisonKeys == {"$eq", "$ne", "$gt", "$gte", "$lt", "$lte", "$in", "$nin"}
PatternKeys == {"$regex", "$text", "$where"}
StructuralKeys == {"$exists", "$type", "$size"}

\* key[1:] for the pattern keys
KeyTail(key) ==
    CASE key = "$regex" -> "regex"
      [] key = "$text" -> "text"
      [] OTHER -> "where"

RECURSIVE normalize_query_structure(_)
NormalizeEntryNoComparisonMutant(key, value) ==
    IF key \in PatternKeys
    THEN Str("<" \o KeyTail(key) \o "_pattern>")
    ELSE IF key \in StructuralKeys
    THEN value
    ELSE normalize_query_structure(value)

NormalizeEntryNoStructuralMutant(key, value) ==
    IF key \in ComparisonKeys
    THEN IF value.k = "list"
         THEN IF Len(value.items) > 0
              THEN Str("<" \o TypeName(value.items[1]) \o "_array>")
              ELSE Str("<empty_array>")
         ELSE Str("<" \o TypeName(value) \o ">")
    ELSE IF key \in PatternKeys
    THEN Str("<" \o KeyTail(key) \o "_pattern>")
    ELSE normalize_query_structure(value)

\* the value stored under one key of a mapping (the if/elif chain of the loop)
NormalizeEntry(key, value) ==
    IF key \in ComparisonKeys
    THEN IF value.k = "list"
         THEN IF Len(value.items) > 0
              THEN Str("<" \o TypeName(value.items[1]) \o "_array>")
              ELSE Str("<empty_array>")
         ELSE Str("<" \o TypeName(value) \o ">")
    ELSE IF key \in PatternKeys
    THEN Str("<" \o KeyTail(key) \o "_pattern>")
    ELSE IF key \in StructuralKeys
    THEN value
    ELSE normalize_query_structure(value)

normalize_query_structure(v) ==
    CASE v.k = "dict" ->
            Dict([i \in 1..Len(v.items) |->
                    KV(v.items[i].key, NormalizeEntry(v.items[i].key, v.items[i].val))])
      [] v.k = "list" ->
            List([i \in 1..Len(v.items) |-> normalize_query_structure(v.items[i])])
      [] OTHER -> Str("<" \o TypeName(v) \o ">")

\* Python's order on the key strings the model uses (sort_keys=True)
KeyOrder ==
    <<"$exists", "$gt", "$in", "$match", "$regex", "$set", "$size",
      "a", "b", "filter", "ns", "op_type", "pipeline", "projection",
      "sort", "status", "type", "update">>

RECURSIVE Flatten(_)
Flatten(ss) == IF ss = <<>> THEN <<>> ELSE Head(ss) \o Flatten(Tail(ss))

\* the items of a mapping in sorted key order
SortedItems(items) ==
    Flatten([j \in 1..Len(KeyOrder) |->
                SelectSeq(items, LAMBDA it : it.key = KeyOrder[j])])

InsertionOrderItemsMutant(items) == items

\* the order in which json.dumps emits the items of a mapping
DumpItems(items) == SortedItems(items)

RECURSIVE json_dumps(_)
\* json.dumps(v, sort_keys=True, default=str) as the sequence of its tokens
json_dumps(v) ==
    CASE v.k = "none" -> <<"null">>
      [] v.k = "scalar" ->
            IF v.ty = "str" THEN <<"\"" \o v.lit \o "\"">> ELSE <<v.lit>>
      [] v.k = "list" ->
            <<"[">> \o Flatten([i \in 1..Len(v.items) |->
                                  json_dumps(v.items[i]) \o <<",">>]) \o <<"]">>
      [] v.k = "dict" ->
            LET its == DumpItems(v.items)
            IN  <<"{">> \o Flatten([i \in 1..Len(its) |->
                    <<"\"" \o its[i].key \o "\"", ":">> \o json_dumps(its[i].val) \o <<",">>])
                \o <<"}">>

\* hashlib.md5(...).hexdigest(): the digest is taken to be injective on the
\* serialized form, so it is the serialized form under a tag
md5_hexdigest(tokens) == <<"md5">> \o tokens

OptItem(cond, key, val) == IF cond THEN <<KV(key, val)>> ELSE <<>>

SignatureComponentsNoOpTypeMutant(q) ==
    Dict(<<KV("ns", Get(q.ns, None)), KV("type", Get(q.type, None))>>
         \o OptItem(Truthy(q.original_query_filter), "filter",
                    normalize_query_structure(q.original_query_filter))
         \o OptItem(Truthy(q.original_query_sort) \/ Truthy(q.original_query_orderby),
                    "sort",
                    normalize_query_structure(IF Truthy(q.original_query_sort)
                                              THEN q.original_query_sort
                                              ELSE q.original_query_orderby))
         \o OptItem(Truthy(q.original_query_projection), "projection",
                    normalize_query_structure(q.original_query_projection))
         \o OptItem(Truthy(q.original_query_pipeline), "pipeline",
                    normalize_query_structure(q.original_query_pipeline))
         \o OptItem(Truthy(q.original_query_update), "update",
                    normalize_query_structure(q.original_query_update)))

SignatureComponentsReadGroupInfoMutant(q) ==
    LET sort_obj == IF Truthy(q.original_query_sort)
                    THEN q.original_query_sort ELSE q.original_query_orderby
    IN  Dict(<<KV("ns", Get(q.ns, None)),
               KV("op_type", Get(q.op_type, None)),
               KV("type", IF q.group_info # Absent THEN Str("representative")
                          ELSE Get(q.type, None))>>
             \o OptItem(Truthy(q.original_query_filter), "filter",
                        normalize_query_structure(q.original_query_filter))
             \o OptItem(Truthy(q.original_query_sort) \/ Truthy(q.original_query_orderby),
                        "sort", normalize_query_structure(sort_obj))
             \o OptItem(Truthy(q.original_query_projection), "projection",
                        normalize_query_structure(q.original_query_projection))
             \o OptItem(Truthy(q.original_query_pipeline), "pipeline",
                        normalize_query_structure(q.original_query_pipeline))
             \o OptItem(Truthy(q.original_query_update), "update",
                        normalize_query_structure(q.original_query_update)))

\* the dict built at db_utils.py:99-120, in insertion order
signature_components(q) ==
    LET sort_obj == IF Truthy(q.original_query_sort)
                    THEN q.original_query_sort ELSE q.original_query_orderby
    IN  Dict(<<KV("ns", Get(q.ns, None)),
               KV("op_type", Get(q.op_type, None)),
               KV("type", Get(q.type, None))>>
             \o OptItem(Truthy(q.original_query_filter), "filter",
                        normalize_query_structure(q.original_query_filter))
             \o OptItem(Truthy(q.original_query_sort) \/ Truthy(q.original_query_orderby),
                        "sort", normalize_query_structure(sort_obj))
             \o OptItem(Truthy(q.original_query_projection), "projection",
                        normalize_query_structure(q.original_query_projection))
             \o OptItem(Truthy(q.original_query_pipeline), "pipeline",
                        normalize_query_structure(q.original_query_pipeline))
             \o OptItem(Truthy(q.original_query_update), "update",
                        normalize_query_structure(q.original_query_update)))

get_query_signature(q) == md5_hexdigest(json_dumps(signature_components(q)))


\* key in d, d.get(key) for an encoded mapping
Has(d, key) == \E i \in 1..Len(d.items) : d.items[i].key = key
DGet(d, key) ==
    IF Has(d, key)
    THEN d.items[CHOOSE i \in 1..Len(d.items) : d.items[i].key = key].val
    ELSE None

(***************************************************************************)
(* get_slow_queries, lines 274-307: the QueryRecord built from one         *)
(* profiler entry q.  An entry is a record with the projected fields;      *)
(* command and query are Absent when the entry has no such key.            *)
(***************************************************************************)
BaseInfo(q) ==
    [ns |-> q.ns, duration_ms |-> q.millis, planSummary |-> q.planSummary,
     ts |-> q.ts, op_type |-> q.op, nscannedObjects |-> q.nscannedObjects,
     nscanned |-> q.nscanned,
     type |-> Absent, command_details |-> Absent,
     original_query_filter |-> Absent, original_query_sort |-> Absent,
     original_query_orderby |-> Absent, original_query_projection |-> Absent,
     original_query_pipeline |-> Absent, original_query_update |-> Absent,
     group_info |-> Absent]

ExtractAlwaysLegacyMutant(q) ==
    LET base == BaseInfo(q)
    IN  IF q.command # Absent
        THEN [base EXCEPT !.type = Str("command"), !.command_details = q.command]
        ELSE [base EXCEPT !.type = Str("legacy_query"),
                          !.original_query_filter = Get(q.query, None),
                          !.original_query_orderby = Get(q.orderby, None)]

extract_query_info(q) ==
    LET base == BaseInfo(q)
        cmd == q.command
    IN  IF q.command # Absent
        THEN LET c == [base EXCEPT !.type = Str("command"), !.command_details = cmd]
             IN  IF Has(cmd, "find")
                 THEN [c EXCEPT !.original_query_filter = DGet(cmd, "filter"),
                                !.original_query_sort = DGet(cmd, "sort"),
                                !.original_query_projection = DGet(cmd, "projection")]
                 ELSE IF Has(cmd, "aggregate")
                 THEN [c EXCEPT !.original_query_pipeline = DGet(cmd, "pipeline")]
                 ELSE IF Has(cmd, "update")
                 THEN [c EXCEPT !.original_query_filter = DGet(cmd, "q"),
                                !.original_query_update = DGet(cmd, "u")]
                 ELSE IF Has(cmd, "delete")
                 THEN [c EXCEPT !.original_query_filter = DGet(cmd, "q")]
                 ELSE c
        ELSE IF q.query # Absent
        THEN [base EXCEPT !.type = Str("legacy_query"),
                          !.original_query_filter = q.query,
                          !.original_query_orderby = Get(q.orderby, None)]
        ELSE base

(***************************************************************************)
(* The profiler entries the model draws from.                              *)
(***************************************************************************)
NsOrders == NsStr(<<"shop", ".", "orders">>)
NsUsers == NsStr(<<"shop", ".", "users">>)

\* the volatile fields of an entry, varied together
Volatile ==
    { [millis |-> 50, ts |-> 1, planSummary |-> Str("COLLSCAN"),
       nscannedObjects |-> IntV("900"), nscanned |-> IntV("900")],
      [millis |-> 30, ts |-> 2, planSummary |-> Str("IXSCAN"),
       nscannedObjects |-> IntV("7"), nscanned |-> IntV("7")] }

Entry(ns, op, vol, command, query, orderby) ==
    [ns |-> ns, op |-> Str(op), millis |-> vol.millis, ts |-> vol.ts,
     planSummary |-> vol.planSummary, nscannedObjects |-> vol.nscannedObjects,
     nscanned |-> vol.nscanned, command |-> command, query |-> query,
     orderby |-> orderby]

StatusDelivered == D1("status", Str("delivered"))
StatusCancelled == D1("status", Str("cancelled"))

Filters ==
    { StatusDelivered, StatusCancelled,
      D1("status", IntV("1")),
      D2("a", IntV("1"), "b", Str("x")),
      D2("b", Str("y"), "a", IntV("2")),
      D1("a", D1("$exists", BoolV("true"))),
      D1("a", D1("$exists", BoolV("false"))),
      D1("a", D1("$size", IntV("2"))),
      D1("a", D1("$in", List(<<IntV("1"), IntV("2")>>))),
      D1("a", D1("$in", List(<<IntV("3"), IntV("4")>>))),
      D1("a", D1("$in", List(<<>>))),
      D1("a", D1("$regex", Str("^x"))),
      D1("a", D1("$regex", Str("y$"))),
      D1("a", D1("$gt", IntV("5"))),
      D1("a", D1("$gt", Str("5"))),
      D1("a", List(<<IntV("1")>>)),
      Dict(<<>>) }

Sorts == { D1("a", IntV("1")), D1("a", IntV("-1")), D1("b", IntV("1")) }

CommandFilters == { Absent, Dict(<<>>), StatusDelivered, D1("a", D1("$gt", IntV("5"))) }

Pipelines ==
    { List(<<D1("$match", D1("a", IntV("1")))>>),
      List(<<D1("$match", D1("a", IntV("2")))>>),
      List(<<D1("$match", D1("b", IntV("1")))>>),
      List(<<>>) }

Updates == { Absent, D1("$set", D1("a", IntV("1"))), D1("$set", D1("a", Str("x"))) }

\* a command document: the discriminator key first, then the optional parts
Cmd(kind, parts) ==
    Dict(<<KV(kind, Str("orders"))>>
         \o Flatten([i \in 1..Len(parts) |->
                       IF parts[i].val = Absent THEN <<>> ELSE <<parts[i]>>]))

VolSlow == CHOOSE v \in Volatile : v.millis = 50
VolFast == CHOOSE v \in Volatile : v.millis = 30

LegacyEntries ==
    { Entry(NsOrders, "query", vol, Absent, f, Absent) :
        vol \in Volatile, f \in Filters }
    \cup { Entry(ns, "query", VolSlow, Absent, f, o) :
             ns \in {NsOrders, NsUsers}, f \in {StatusDelivered, StatusCancelled},
             o \in Sorts }
    \cup { Entry(NsUsers, "query", vol, Absent, StatusDelivered, Absent) :
             vol \in Volatile }

FindEntries ==
    { Entry(NsOrders, "command", VolSlow,
            Cmd("find", <<KV("filter", f), KV("sort", s), KV("projection", p)>>),
            Absent, Absent) :
        f \in CommandFilters, s \in {Absent, D1("a", IntV("1")), D1("b", IntV("1"))},
        p \in {Absent, D1("a", IntV("1"))} }
    \cup { Entry(NsOrders, "command", VolFast,
                 Cmd("find", <<KV("filter", StatusCancelled)>>), Absent, Absent) }
    \cup { Entry(NsOrders, "query", VolSlow,
                 Cmd("find", <<KV("filter", f), KV("sort", s), KV("projection", p)>>),
                 Absent, Absent) :
             f \in {Absent, StatusDelivered}, s \in {Absent, D1("a", IntV("1"))},
             p \in {Absent, D1("a", IntV("1"))} }

AggregateEntries ==
    { Entry(NsOrders, "command", VolSlow, Cmd("aggregate", <<KV("pipeline", p)>>),
            Absent, Absent) : p \in Pipelines }
    \cup { Entry(NsOrders, "command", VolFast,
                 Cmd("aggregate", <<KV("pipeline", List(<<D1("$match", D1("a", IntV("2")))>>))>>),
                 Absent, Absent) }

UpdateEntries ==
    { Entry(NsOrders, "update", VolSlow, Cmd("update", <<KV("q", f), KV("u", u)>>),
            Absent, Absent) :
        f \in {Absent, StatusDelivered}, u \in Updates }
    \cup { Entry(NsOrders, "update", VolFast,
                 Cmd("update", <<KV("q", StatusCancelled),
                                 KV("u", D1("$set", D1("a", IntV("2"))))>>),
                 Absent, Absent) }

    \cup { Entry(NsOrders, "update", VolSlow,
                 D2("q", StatusDelivered, "u", D1("$set", D1("a", IntV("1")))),
                 Absent, Absent) }

DeleteEntries ==
    { Entry(NsOrders, "delete", VolSlow, Cmd("delete", <<KV("q", f)>>), Absent, Absent) :
        f \in {Absent, StatusDelivered} }
    \cup { Entry(NsOrders, "delete", VolFast,
                 Cmd("delete", <<KV("q", StatusCancelled)>>), Absent, Absent) }

\* entries of no recognised shape: an insert, a getmore and a bare command
OtherEntries ==
    { Entry(NsOrders, op, VolSlow, c, Absent, Absent) :
        op \in {"insert", "getmore", "command", "query"},
        c \in {Absent, Cmd("count", <<KV("query", StatusDelivered)>>)} }
    \cup { Entry(NsOrders, "getmore", VolFast, Absent, Absent, Absent) }

ProfileEntries ==
    LegacyEntries \cup FindEntries \cup AggregateEntries \cup UpdateEntries
    \cup DeleteEntries \cup OtherEntries

Records == { extract_query_info(e) : e \in ProfileEntries }


(***************************************************************************)
(* group_similar_queries and select_representative_query.  A group holds    *)
(* references to the records of the input list: members are indices into   *)
(* that list.                                                              *)
(***************************************************************************)
GroupIndex(acc, sig) ==
    IF \E j \in 1..Len(acc) : acc[j].signature = sig
    THEN CHOOSE j \in 1..Len(acc) : acc[j].signature = sig
    ELSE 0

GroupInsertOverwriteMutant(acc, sig, i) ==
    LET j == GroupIndex(acc, sig)
    IN  IF j = 0
        THEN Append(acc, [signature |-> sig, members |-> <<i>>])
        ELSE [acc EXCEPT ![j].members = <<i>>]

\* one iteration of the loop at db_utils.py:139-143
GroupInsert(acc, sig, i) ==
    LET j == GroupIndex(acc, sig)
    IN  IF j = 0
        THEN Append(acc, [signature |-> sig, members |-> <<i>>])
        ELSE [acc EXCEPT ![j].members = Append(@, i)]

RECURSIVE GroupFrom(_, _, _)
GroupFrom(qs, i, acc) ==
    IF i > Len(qs) THEN acc
    ELSE GroupFrom(qs, i + 1, GroupInsert(acc, get_query_signature(qs[i]), i))

\* the dict returned, as the sequence of its items in insertion order
group_similar_queries(qs) == GroupFrom(qs, 1, <<>>)

Duration(qs, i) == qs[i].duration_ms

RECURSIVE SumDurations(_, _)
SumDurations(qs, members) ==
    IF members = <<>> THEN 0
    ELSE Duration(qs, Head(members)) + SumDurations(qs, Tail(members))

MaxDuration(qs, members) ==
    CHOOSE d \in {Duration(qs, members[n]) : n \in 1..Len(members)} :
        \A n \in 1..Len(members) : Duration(qs, members[n]) <= d

MinDuration(qs, members) ==
    CHOOSE d \in {Duration(qs, members[n]) : n \in 1..Len(members)} :
        \A n \in 1..Len(members) : Duration(qs, members[n]) >= d

\* max(similar_queries, key=...): the first member of the largest key
FirstMax(qs, members) ==
    members[CHOOSE n \in 1..Len(members) :
                /\ Duration(qs, members[n]) = MaxDuration(qs, members)
                /\ \A m \in 1..(n - 1) :
                      Duration(qs, members[m]) < Duration(qs, members[n])]

LastMax(qs, members) ==
    members[CHOOSE n \in 1..Len(members) :
                /\ Duration(qs, members[n]) = MaxDuration(qs, members)
                /\ \A m \in (n + 1)..Len(members) :
                      Duration(qs, members[m]) < Duration(qs, members[n])]

\* similar_queries[:3]
SignatureSampleSize == 3

GroupInfo(qs, members) ==
    [total_similar_queries |-> Len(members),
     min_duration_ms |-> MinDuration(qs, members),
     max_duration_ms |-> MaxDuration(qs, members),
     \* a true division: the quotient num / den
     avg_duration_ms |-> [num |-> SumDurations(qs, members), den |-> Len(members)],
     query_signatures |->
        [n \in 1..(IF Len(members) < SignatureSampleSize
                   THEN Len(members) ELSE SignatureSampleSize) |->
            get_query_signature(qs[members[n]])]]

SelectLastMaxMutant(qs, members) ==
    IF members = <<>>
    THEN [raised |-> "ValueError", rep |-> 0, info |-> Absent]
    ELSE [raised |-> "", rep |-> LastMax(qs, members), info |-> GroupInfo(qs, members)]

SelectSampleStatsMutant(qs, members) ==
    IF members = <<>>
    THEN [raised |-> "ValueError", rep |-> 0, info |-> Absent]
    ELSE [raised |-> "", rep |-> FirstMax(qs, members),
          info |-> GroupInfo(qs, SubSeq(members, 1, 1))]

\* the representative (an index into qs) and the group_info attached to it
select_representative_query(qs, members) ==
    IF members = <<>>
    THEN [raised |-> "ValueError", rep |-> 0, info |-> Absent]
    ELSE [raised |-> "", rep |-> FirstMax(qs, members), info |-> GroupInfo(qs, members)]

(***************************************************************************)
(* The database engine as the getters see it.  A collection has documents, *)
(* indexes and a status:                                                   *)
(*   "ok"       readable                                                   *)
(*   "denied"   every read raises OperationFailure (not authorized)        *)
(*   "missing"  the collection does not exist: reads give nothing          *)
(*   "down"     every request raises ConnectionFailure                     *)
(***************************************************************************)
EngineStatus == {"ok", "denied", "missing", "down"}

\* get_type, db_utils.py:346-361, in the order of its isinstance tests: a bool
\* is an instance of int
get_type(v) ==
    CASE v.k = "dict" -> "object"
      [] v.k = "list" -> "array"
      [] v.k = "none" -> "null"
      [] v.k = "scalar" ->
            CASE v.ty = "str" -> "string"
              [] v.ty = "int" -> "int"
              [] v.ty = "bool" -> "int"
              [] v.ty = "float" -> "float"
              [] OTHER -> v.ty

\* one pass of the inner loop body, db_utils.py:366-370; a schema is a function
\* from field names to tags
SchemaAdd(schema, key, t) ==
    IF key \notin DOMAIN schema THEN (key :> t) @@ schema
    ELSE IF schema[key] # t /\ schema[key] # "mixed"
    THEN [schema EXCEPT ![key] = "mixed"]
    ELSE schema

RECURSIVE SchemaOfItems(_, _)
SchemaOfItems(schema, items) ==
    IF items = <<>> THEN schema
    ELSE SchemaOfItems(SchemaAdd(schema, Head(items).key, get_type(Head(items).val)),
                       Tail(items))

RECURSIVE SchemaOfDocs(_, _)
SchemaOfDocs(schema, docs) ==
    IF docs = <<>> THEN schema
    ELSE SchemaOfDocs(SchemaOfItems(schema, Head(docs).items), Tail(docs))

EmptySchema == <<>>
EmptyIndexes == <<>>

infer_schema(sampled_docs) == SchemaOfDocs(EmptySchema, sampled_docs)

\* the samples $sample may return for a collection smaller than the sample
\* size: all its documents, in some order
Reverse(docs) == [i \in 1..Len(docs) |-> docs[Len(docs) + 1 - i]]
Samples(docs) == {docs, Reverse(docs)}

CacheKeyWithoutDatabaseMutant(db_name, collection_name, kind) ==
    collection_name \o <<".", kind>>

\* f"{db.name}.{collection_name}.schema" / ".indexes", as tokens
cache_key(db_name, collection_name, kind) ==
    db_name \o <<".">> \o collection_name \o <<".", kind>>

\* the outcome of a getter call: the cache after it, what it returns or
\* raises, and how it went: "hit", "store" (computed and stored), "fail"
\* (computation failed, empty result), "raise" (exception propagated)
Outcome(c, ret, raised, how) == [cache |-> c, ret |-> ret, raised |-> raised, how |-> how]

GetSchemaNoCacheCheckMutant(cache_, coll, key, sample, time) ==
    IF coll.status = "denied" THEN Outcome(cache_, EmptySchema, "", "fail")
    ELSE IF coll.status = "down" THEN Outcome(cache_, EmptySchema, "ConnectionFailure", "raise")
    ELSE LET schema == infer_schema(IF coll.status = "missing" THEN <<>> ELSE sample)
         IN  Outcome((key :> [data |-> schema, timestamp |-> time]) @@ cache_,
                     schema, "", IF key \in DOMAIN cache_ THEN "hit" ELSE "store")

GetSchemaRaisesWhenDeniedMutant(cache_, coll, key, sample, time) ==
    IF key \in DOMAIN cache_
    THEN Outcome(cache_, cache_[key].data, "", "hit")
    ELSE IF coll.status = "denied"
    THEN Outcome(cache_, EmptySchema, "OperationFailure", "raise")
    ELSE IF coll.status = "down"
    THEN Outcome(cache_, EmptySchema, "ConnectionFailure", "raise")
    ELSE LET schema == infer_schema(IF coll.status = "missing" THEN <<>> ELSE sample)
         IN  Outcome((key :> [data |-> schema, timestamp |-> time]) @@ cache_,
                     schema, "", "store")

GetSchemaStoresFailureMutant(cache_, coll, key, sample, time) ==
    IF key \in DOMAIN cache_
    THEN Outcome(cache_, cache_[key].data, "", "hit")
    ELSE IF coll.status = "denied"
    THEN Outcome((key :> [data |-> EmptySchema, timestamp |-> time]) @@ cache_,
                 EmptySchema, "", "fail")
    ELSE IF coll.status = "down"
    THEN Outcome(cache_, EmptySchema, "ConnectionFailure", "raise")
    ELSE LET schema == infer_schema(IF coll.status = "missing" THEN <<>> ELSE sample)
         IN  Outcome((key :> [data |-> schema, timestamp |-> time]) @@ cache_,
                     schema, "", "store")

\* get_collection_schema, db_utils.py:322-378
get_collection_schema(cache_, coll, key, sample, time) ==
    IF key \in DOMAIN cache_
    THEN Outcome(cache_, cache_[key].data, "", "hit")
    ELSE IF coll.status = "denied"
    THEN Outcome(cache_, EmptySchema, "", "fail")
    ELSE IF coll.status = "down"
    THEN Outcome(cache_, EmptySchema, "ConnectionFailure", "raise")
    ELSE LET schema == infer_schema(IF coll.status = "missing" THEN <<>> ELSE sample)
         IN  Outcome((key :> [data |-> schema, timestamp |-> time]) @@ cache_,
                     schema, "", "store")

GetIndexesNeverStoresMutant(cache_, coll, key, time) ==
    IF key \in DOMAIN cache_
    THEN Outcome(cache_, cache_[key].data, "", "hit")
    ELSE IF coll.status = "denied"
    THEN Outcome(cache_, EmptyIndexes, "", "fail")
    ELSE IF coll.status = "down"
    THEN Outcome(cache_, EmptyIndexes, "ConnectionFailure", "raise")
    ELSE Outcome(cache_, IF coll.status = "missing" THEN EmptyIndexes ELSE coll.indexes,
                 "", "store")

\* get_collection_indexes, db_utils.py:392-418
get_collection_indexes(cache_, coll, key, time) ==
    IF key \in DOMAIN cache_
    THEN Outcome(cache_, cache_[key].data, "", "hit")
    ELSE IF coll.status = "denied"
    THEN Outcome(cache_, EmptyIndexes, "", "fail")
    ELSE IF coll.status = "down"
    THEN Outcome(cache_, EmptyIndexes, "ConnectionFailure", "raise")
    ELSE LET indexes == IF coll.status = "missing" THEN EmptyIndexes ELSE coll.indexes
         IN  Outcome((key :> [data |-> indexes, timestamp |-> time]) @@ cache_,
                     indexes, "", "store")

CacheStatsWithoutIndexesMutant(cache_) ==
    LET schema_entries ==
            Cardinality({ key \in DOMAIN cache_ :
                            SubSeq(key, Len(key) - 1, Len(key)) = <<".", "schema">> })
    IN  [total_entries |-> Cardinality(DOMAIN cache_),
         schema_entries |-> schema_entries,
         index_entries |-> 0,
         collections_cached |-> schema_entries]

\* get_cache_stats, db_utils.py:23-33; key.endswith('.schema') on the tokens
get_cache_stats(cache_) ==
    LET schema_entries ==
            Cardinality({ key \in DOMAIN cache_ :
                            SubSeq(key, Len(key) - 1, Len(key)) = <<".", "schema">> })
        index_entries ==
            Cardinality({ key \in DOMAIN cache_ :
                            SubSeq(key, Len(key) - 1, Len(key)) = <<".", "indexes">> })
    IN  [total_entries |-> Cardinality(DOMAIN cache_),
         schema_entries |-> schema_entries,
         index_entries |-> index_entries,
         collections_cached |-> schema_entries]

\* _metadata_cache.clear()
EmptyCache == <<>>
ClearKeepsEntriesMutant(cache_) == cache_
clear_metadata_cache(cache_) == EmptyCache

(***************************************************************************)
(* get_explain_plan, db_utils.py:421-462.  The result tells what was       *)
(* returned or raised and which plan requests went to the engine.          *)
(***************************************************************************)
DGetDefault(d, key, default) == IF Has(d, key) THEN DGet(d, key) ELSE default

\* a or b
Or(a, b) == IF Truthy(a) THEN a ELSE b

Plan(request) == [k |-> "plan", of |-> request]
WriteResult(request) == [k |-> "write_result", of |-> request]

\* a request the engine refuses whatever the collection holds: a filter, an
\* update or a pipeline that is not of its type
Malformed(request) ==
    \/ request.kind \in {"update", "delete"} /\ request.q.k # "dict"
    \/ request.kind = "update" /\ request.u.k # "dict"
    \/ request.kind = "aggregate" /\ request.pipeline.k # "list"

\* what a call that sends the request ends with, by the status of the
\* collection.  The update and delete requests are the write commands
\* themselves with an extra field explain: an engine that parses commands
\* strictly refuses the field, one that does not performs the write.
Explained(status, request, env) ==
    IF status = "down"
    THEN [ret |-> None, raised |-> "ConnectionFailure", requests |-> <<request>>,
          wrote |-> FALSE]
    ELSE IF status = "denied" \/ Malformed(request)
    THEN \* OperationFailure, caught at db_utils.py:459-461
         [ret |-> None, raised |-> "", requests |-> <<request>>, wrote |-> FALSE]
    ELSE IF request.kind \in {"update", "delete"}
    THEN IF env.strict_commands
         THEN [ret |-> None, raised |-> "", requests |-> <<request>>, wrote |-> FALSE]
         ELSE [ret |-> WriteResult(request), raised |-> "", requests |-> <<request>>,
               wrote |-> status = "ok"]
    ELSE [ret |-> Plan(request), raised |-> "", requests |-> <<request>>,
          wrote |-> FALSE]

NoPlan == [ret |-> None, raised |-> "", requests |-> <<>>, wrote |-> FALSE]
Raises(exc) == [ret |-> None, raised |-> exc, requests |-> <<>>, wrote |-> FALSE]

InertUpdate == D1("$set", D1("__dummy_field__", BoolV("true")))

IsOp(q, ops) == \E o \in ops : Get(q.op_type, None) = Str(o)

\* what the driver and the engine in use decide:
\*   sort_accepts_mapping  Cursor.sort takes a mapping (it raises TypeError
\*                         where it only takes a list of pairs)
\*   strict_commands       the engine refuses unknown command fields
Environments == [sort_accepts_mapping : BOOLEAN, strict_commands : BOOLEAN]

ExplainAnyCommandMutant(status, q, env) ==
    IF IsOp(q, {"command", "getmore", "insert", "query"})
    THEN Explained(status,
                   [kind |-> "aggregate",
                    pipeline |-> Get(q.original_query_pipeline, List(<<>>))], env)
    ELSE NoPlan

get_explain_plan(status, q, env) ==
    IF /\ IsOp(q, {"find", "query"})
       /\ \/ Get(q.original_query_filter, None) # None
          \/ Get(q.original_query_sort, None) # None
          \/ Get(q.original_query_orderby, None) # None
    THEN LET filter_doc == Get(q.original_query_filter, Dict(<<>>))
             sort_doc == Or(Get(q.original_query_sort, None),
                            Get(q.original_query_orderby, None))
             projection_doc == Get(q.original_query_projection, None)
         IN  IF Truthy(sort_doc) /\ ~env.sort_accepts_mapping
             THEN Raises("TypeError")
             ELSE IF Truthy(projection_doc)
             THEN \* the driver's cursor has no method project
                  Raises("AttributeError")
             ELSE Explained(status,
                            [kind |-> "find", filter |-> filter_doc,
                             sort |-> IF Truthy(sort_doc) THEN sort_doc ELSE None],
                            env)
    ELSE IF /\ IsOp(q, {"command"})
            /\ Has(Get(q.command_details, Dict(<<>>)), "aggregate")
    THEN Explained(status,
                   [kind |-> "aggregate",
                    pipeline |-> DGetDefault(q.command_details, "pipeline", List(<<>>))],
                   env)
    ELSE IF IsOp(q, {"update"})
    THEN Explained(status,
                   [kind |-> "update",
                    q |-> Get(q.original_query_filter, Dict(<<>>)),
                    u |-> Get(q.original_query_update, InertUpdate)], env)
    ELSE IF IsOp(q, {"delete"})
    THEN Explained(status,
                   [kind |-> "delete", q |-> Get(q.original_query_filter, Dict(<<>>))],
                   env)
    ELSE NoPlan

(***************************************************************************)
(* get_slow_queries, db_utils.py:215-307.  The profile is the content of   *)
(* system.profile with a status like a collection's.                       *)
(***************************************************************************)
AllOperations == <<"query", "command", "update", "delete", "insert", "getmore">>

included_operations(exclude_operations) ==
    SelectSeq(AllOperations, LAMBDA op : op \notin exclude_operations)

MatchesFilterAboveMutant(e, min_duration_ms, exclude_operations, time_window_minutes, clock) ==
    /\ e.millis > min_duration_ms
    /\ included_operations(exclude_operations) # <<>>
          => \E i \in 1..Len(included_operations(exclude_operations)) :
                e.op = Str(included_operations(exclude_operations)[i])
    /\ time_window_minutes > 0 => e.ts >= clock - time_window_minutes

\* the query filter built at db_utils.py:232-248 applied to one entry; clock is
\* datetime.now() in minutes
MatchesFilter(e, min_duration_ms, exclude_operations, time_window_minutes, clock) ==
    /\ e.millis >= min_duration_ms
    /\ included_operations(exclude_operations) # <<>>
          => \E i \in 1..Len(included_operations(exclude_operations)) :
                e.op = Str(included_operations(exclude_operations)[i])
    /\ time_window_minutes > 0 => e.ts >= clock - time_window_minutes

IsSortedDescending(es) ==
    \A i \in 1..(Len(es) - 1) : es[i].millis >= es[i + 1].millis

SelectionsUnsortedMutant(entries, min_duration_ms, exclude_operations, time_window_minutes, clock) ==
    LET matching == { i \in 1..Len(entries) :
                        MatchesFilter(entries[i], min_duration_ms, exclude_operations,
                                      time_window_minutes, clock) }
        n == Cardinality(matching)
    IN  { [j \in 1..n |-> entries[f[j]]] :
            f \in { g \in [1..n -> matching] :
                      \A a, b \in 1..n : a # b => g[a] # g[b] } }

\* the orders in which the engine may deliver the matching entries for
\* .sort("millis", -1): descending, entries of equal millis in any order
SortedSelections(entries, min_duration_ms, exclude_operations, time_window_minutes, clock) ==
    LET matching == { i \in 1..Len(entries) :
                        MatchesFilter(entries[i], min_duration_ms, exclude_operations,
                                      time_window_minutes, clock) }
        n == Cardinality(matching)
    IN  { [j \in 1..n |-> entries[f[j]]] :
            f \in { g \in [1..n -> matching] :
                      /\ \A a, b \in 1..n : a # b => g[a] # g[b]
                      /\ IsSortedDescending([j \in 1..n |-> entries[g[j]]]) } }

\* the list built by the loop at db_utils.py:274-307 for one delivery order
ExtractAll(sorted_entries) ==
    [i \in 1..Len(sorted_entries) |-> extract_query_info(sorted_entries[i])]

\* the outcomes of one call: the list returned or the exception raised, and
\* the entries the cursor delivered.  A profile is [status, entries, clock];
\* listing the collections (line 222) and iterating the cursor (line 275) are
\* outside the try block
get_slow_queries(profile_, min_duration_ms, exclude_operations, time_window_minutes) ==
    IF profile_.status = "down"
    THEN {[ret |-> <<>>, raised |-> "ConnectionFailure", cursor |-> <<>>]}
    ELSE IF profile_.status = "denied"
    THEN {[ret |-> <<>>, raised |-> "OperationFailure", cursor |-> <<>>]}
    ELSE IF profile_.status = "missing"
    THEN {[ret |-> <<>>, raised |-> "", cursor |-> <<>>]}
    ELSE { [ret |-> ExtractAll(es), raised |-> "", cursor |-> es] :
             es \in SortedSelections(profile_.entries, min_duration_ms,
                                     exclude_operations, time_window_minutes,
                                     profile_.clock) }

\* validate_config, config.py:64-89
validate_config(c) ==
    /\ c.openrouter_api_key
    /\ c.mongo_mode \in {"local", "remote"}
    /\ c.min_duration_ms >= 0
    /\ c.max_queries_to_analyze >= 0

\* sq.get('ns', '').split('.', 1), main.py:87: the tokens before the first
\* dot and, if there is one, the tokens after it
FirstDot(toks) == CHOOSE d \in 1..Len(toks) :
                    toks[d] = "." /\ \A e \in 1..(d - 1) : toks[e] # "."
ns_parts(ns) ==
    IF \E d \in 1..Len(ns.toks) : ns.toks[d] = "."
    THEN <<SubSeq(ns.toks, 1, FirstDot(ns.toks) - 1),
           SubSeq(ns.toks, FirstDot(ns.toks) + 1, Len(ns.toks))>>
    ELSE <<ns.toks>>

\* main.py:62-65: the representative of every group, in group order, each
\* with its group_info
Representatives(qs, groups) ==
    [g \in 1..Len(groups) |-> select_representative_query(qs, groups[g].members)]

TruncateKeepsLastMutant(reps, max_queries_to_analyze) ==
    IF max_queries_to_analyze > 0 /\ Len(reps) > max_queries_to_analyze
    THEN SubSeq(reps, Len(reps) - max_queries_to_analyze + 1, Len(reps))
    ELSE reps

\* main.py:70-75
Truncate(reps, max_queries_to_analyze) ==
    IF max_queries_to_analyze > 0 /\ Len(reps) > max_queries_to_analyze
    THEN SubSeq(reps, 1, max_queries_to_analyze)
    ELSE reps

VARIABLES
    recA, recB, sigA, sigB,     \* SpecSig: two records and their signatures;
                                \* SpecNorm: recA is the normalizer's argument
    queries,                    \* the list given to group_similar_queries
    grouped,                    \* its result: <<[signature, members], ...>>
    selected,                   \* per group: the representative chosen, 0 before
    gpc,                        \* "start", "grouped"
    cache,                      \* _metadata_cache: cache key -> [data, timestamp]
    engine,                     \* the collections of the engine: target -> state
    now,                        \* the clock: the number of calls made so far
    nchanges,                   \* the number of changes made to the engine
    log,                        \* the getter calls since the last clear
    last,                       \* the last call: what it returned or raised
    pc,                         \* where run() is: "idle" between two runs
    config,                     \* the values of config.py
    env,                        \* the driver and engine in use
    profile,                    \* system.profile: [status, entries, clock]
    client,                     \* the client of the run: "none", "open", "closed"
    representative_queries,     \* indices into queries, in group order
    pos,                        \* the position of the loop in representative_queries
    run,                        \* what the current run has done so far
    plan,                       \* the last get_explain_plan call
    thread                      \* the getter call each concurrent caller is in

sigVars == <<recA, recB, sigA, sigB>>
grpVars == <<queries, grouped, selected, gpc>>

cacheVars == <<cache, engine, now, nchanges, log, last>>
runVars == <<pc, config, env, profile, client, representative_queries, pos, run, plan,
             thread>>

vars == <<recA, recB, sigA, sigB, queries, grouped, selected, gpc,
          cache, engine, now, nchanges, log, last,
          pc, config, env, profile, client, representative_queries, pos, run, plan,
          thread>>

SigParked == recA = None /\ recB = None /\ sigA = <<>> /\ sigB = <<>>
GrpParked == queries = <<>> /\ grouped = <<>> /\ selected = <<>> /\ gpc = "parked"
CacheParked ==
    /\ cache = <<>> /\ engine = <<>> /\ now = 0 /\ nchanges = 0
    /\ log = <<>> /\ last = [api |-> "none"]

NoRun ==
    [no |-> 0, clears |-> 0, dropped |-> 0, getters |-> 0, closes |-> 0, total |-> 0,
     outcome |-> "none", cause |-> "", failedAt |-> "",
     analysed |-> <<>>, skipped |-> <<>>, unreadable |-> <<>>, unplanned |-> <<>>]
NoCall == [by |-> "none"]
RunParked ==
    /\ pc = "parked" /\ config = <<>> /\ env = <<>> /\ profile = <<>>
    /\ client = "none" /\ representative_queries = <<>> /\ pos = 0
    /\ run = NoRun /\ plan = NoCall /\ thread = <<>>

NoSig == <<>>

(***************************************************************************)
(* SpecSig: get_query_signature applied to two records of the extractor.   *)
(***************************************************************************)
InitSig ==
    /\ recA \in Records
    /\ recB \in Records
    /\ sigA = NoSig
    /\ sigB = NoSig
    /\ GrpParked
    /\ CacheParked
    /\ RunParked

Sign ==
    /\ sigA = NoSig
    /\ sigA' = get_query_signature(recA)
    /\ sigB' = get_query_signature(recB)
    /\ UNCHANGED <<recA, recB>>
    /\ UNCHANGED grpVars
    /\ UNCHANGED cacheVars
    /\ UNCHANGED runVars

NextSig == Sign

SpecSig == InitSig /\ [][NextSig]_vars

Signed == sigA # NoSig /\ sigB # NoSig


(***************************************************************************)
(* Relations between documents used to state the signature properties.     *)
(***************************************************************************)
RECURSIVE SameUpTo(_, _, _, _)
\* x and y are the same document up to the insertion order of mapping keys
\* and, where blind, up to the literal of a scalar (its type still agrees);
\* under a key of exactKeys the literals count again
SameUpTo(x, y, blind, exactKeys) ==
    /\ x.k = y.k
    /\ CASE x.k = "scalar" -> x.ty = y.ty /\ (blind \/ x.lit = y.lit)
         [] x.k = "list" ->
               /\ Len(x.items) = Len(y.items)
               /\ \A i \in 1..Len(x.items) :
                     SameUpTo(x.items[i], y.items[i], blind, exactKeys)
         [] x.k = "dict" ->
               /\ Len(x.items) = Len(y.items)
               /\ \A i \in 1..Len(x.items) : \E j \in 1..Len(y.items) :
                     /\ x.items[i].key = y.items[j].key
                     /\ SameUpTo(x.items[i].val, y.items[j].val,
                                 blind /\ x.items[i].key \notin exactKeys, exactKeys)
         [] OTHER -> TRUE

DetailFields(q) ==
    <<q.original_query_filter, q.original_query_sort, q.original_query_orderby,
      q.original_query_projection, q.original_query_pipeline, q.original_query_update>>

\* a and b agree on ns, op_type and type, and their detail documents differ at
\* most in literals (outside exactKeys) and in key order
DifferOnlyInLiterals(a, b, exactKeys) ==
    /\ a.ns = b.ns /\ a.op_type = b.op_type /\ a.type = b.type
    /\ \A i \in 1..Len(DetailFields(a)) :
          SameUpTo(DetailFields(a)[i], DetailFields(b)[i], TRUE, exactKeys)

\* C1 as stated: records that agree on ns, op_type and type and differ only in
\* literal values of the same type, in key order or in volatile fields have
\* equal signatures (every literal counted, also those under $exists, $type
\* and $size).
C1_AsStated == Signed /\ DifferOnlyInLiterals(recA, recB, {}) => sigA = sigB

\* C1 amended: the same for records whose literals under the structural keys
\* $exists, $type and $size agree; those values are kept verbatim.
C1_Determinism ==
    Signed /\ DifferOnlyInLiterals(recA, recB, StructuralKeys) => sigA = sigB

\* two records with filters {a, b} and {b, a} of different literals, key order
\* and volatile fields, signed
C1_Witness ==
    /\ Signed
    /\ recA.original_query_filter = D2("a", IntV("1"), "b", Str("x"))
    /\ recB.original_query_filter = D2("b", Str("y"), "a", IntV("2"))
    /\ recA.ts # recB.ts /\ recA.duration_ms # recB.duration_ms
    /\ DifferOnlyInLiterals(recA, recB, StructuralKeys)
    /\ sigA = sigB

\* the sort document the signature uses: sort, or else orderby
SortObj(q) ==
    IF Truthy(q.original_query_sort) THEN q.original_query_sort
    ELSE Get(q.original_query_orderby, None)

\* the normalized detail of a record, field by field
NormalizedDetail(q) ==
    <<normalize_query_structure(Get(q.original_query_filter, None)),
      normalize_query_structure(SortObj(q)),
      normalize_query_structure(Get(q.original_query_projection, None)),
      normalize_query_structure(Get(q.original_query_pipeline, None)),
      normalize_query_structure(Get(q.original_query_update, None))>>

\* the same with an empty or null field counted as no field at all
EffectiveDetail(q) ==
    LET eff(v) == IF Truthy(v) THEN normalize_query_structure(v) ELSE None
    IN  <<eff(q.original_query_filter), eff(SortObj(q)), eff(q.original_query_projection),
          eff(q.original_query_pipeline), eff(q.original_query_update)>>

SameShape(da, db) == \A i \in 1..Len(da) : SameUpTo(da[i], db[i], FALSE, {})

\* C2 as stated: records that differ in ns, op_type or the normalized shape of
\* their detail have different signatures.
C2_AsStated ==
    Signed /\ ( \/ recA.ns # recB.ns
                \/ recA.op_type # recB.op_type
                \/ ~SameShape(NormalizedDetail(recA), NormalizedDetail(recB)) )
      => sigA # sigB

\* C2 amended: records that differ in ns, op_type or the normalized shape of a
\* non-empty detail field have different signatures; an empty or null field is
\* the same as no field.
C2_Discrimination ==
    Signed /\ ( \/ recA.ns # recB.ns
                \/ recA.op_type # recB.op_type
                \/ ~SameShape(EffectiveDetail(recA), EffectiveDetail(recB)) )
      => sigA # sigB

\* two records equal but for the type of the filter's literal, and two equal
\* but for op_type would be told apart; here: the filter's shape
C2_Witness ==
    /\ Signed
    /\ recA.ns = recB.ns /\ recA.op_type = recB.op_type /\ recA.type = recB.type
    /\ recA.original_query_filter = StatusDelivered
    /\ recB.original_query_filter = D1("status", IntV("1"))
    /\ recA.original_query_orderby = recB.original_query_orderby
    /\ sigA # sigB


(***************************************************************************)
(* SpecGroup: group_similar_queries on a list of records, then             *)
(* select_representative_query on its groups.                              *)
(***************************************************************************)
MaxQueries == 3

LegacyRecord(ns, vol, f) == extract_query_info(Entry(ns, "query", vol, Absent, f, Absent))

\* the records the lists are made of: two patterns with equal and different
\* durations, and a third pattern
GroupPool ==
    { LegacyRecord(NsOrders, vol, f) :
        vol \in Volatile, f \in {StatusDelivered, StatusCancelled} }
    \cup { LegacyRecord(NsUsers, VolSlow, StatusDelivered),
           LegacyRecord(NsOrders, VolFast, D1("status", IntV("1"))) }

InitGroup ==
    /\ queries \in UNION { [1..n -> GroupPool] : n \in 0..MaxQueries }
    /\ grouped = <<>>
    /\ selected = <<>>
    /\ gpc = "start"
    /\ SigParked
    /\ CacheParked
    /\ RunParked

Group ==
    /\ gpc = "start"
    /\ grouped' = group_similar_queries(queries)
    /\ selected' = [g \in 1..Len(grouped') |-> 0]
    /\ gpc' = "grouped"
    /\ UNCHANGED queries
    /\ UNCHANGED sigVars
    /\ UNCHANGED cacheVars
    /\ UNCHANGED runVars

\* select_representative_query(grouped[g]): the representative's group_info is
\* assigned in place, in the record of the list
SelectRepresentative(g) ==
    /\ gpc = "grouped"
    /\ LET r == select_representative_query(queries, grouped[g].members)
       IN  /\ r.raised = ""
           /\ queries' = [queries EXCEPT ![r.rep].group_info = r.info]
           /\ selected' = [selected EXCEPT ![g] = r.rep]
    /\ UNCHANGED <<grouped, gpc>>
    /\ UNCHANGED sigVars
    /\ UNCHANGED cacheVars
    /\ UNCHANGED runVars

NextGroup == Group \/ \E g \in 1..Len(grouped) : SelectRepresentative(g)

SpecGroup == InitGroup /\ [][NextGroup]_vars

RECURSIVE SumLen(_)
SumLen(gs) == IF gs = <<>> THEN 0 ELSE Len(Head(gs).members) + SumLen(Tail(gs))

\* the places (group, position) at which record i is filed
Places(i) ==
    { <<g, n>> \in (1..Len(grouped)) \X (1..MaxQueries + 1) :
        n <= Len(grouped[g].members) /\ grouped[g].members[n] = i }

\* C3: every record is in exactly one group, the one keyed by its own
\* signature; the group sizes sum to the number of records; no group is empty.
C3_GroupingComplete ==
    gpc = "grouped" =>
        /\ \A i \in 1..Len(queries) :
              /\ Cardinality(Places(i)) = 1
              /\ \A pl \in Places(i) :
                    grouped[pl[1]].signature = get_query_signature(queries[i])
        /\ SumLen(grouped) = Len(queries)
        /\ \A g \in 1..Len(grouped) : Len(grouped[g].members) >= 1
        /\ \A g, h \in 1..Len(grouped) :
              g # h => grouped[g].signature # grouped[h].signature

\* three records of two patterns grouped into two groups
C3_Witness ==
    /\ gpc = "grouped"
    /\ Len(queries) = 3
    /\ Len(grouped) = 2
    /\ \E g \in 1..Len(grouped) : grouped[g].members = <<1, 3>>

\* C4: the representative is a member of its group, of the largest duration,
\* and the first such member in the group's order.
C4_RepresentativeValid ==
    \A g \in 1..Len(selected) : selected[g] # 0 =>
        LET ms == grouped[g].members
        IN  \E n \in 1..Len(ms) :
               /\ ms[n] = selected[g]
               /\ \A m \in 1..Len(ms) :
                     queries[ms[m]].duration_ms <= queries[ms[n]].duration_ms
               /\ \A m \in 1..(n - 1) :
                     queries[ms[m]].duration_ms < queries[ms[n]].duration_ms

\* a group of three with the largest duration at its second and third member:
\* the second is chosen
C4_Witness ==
    \E g \in 1..Len(selected) :
        /\ Len(grouped[g].members) = 3
        /\ queries[grouped[g].members[1]].duration_ms = 30
        /\ queries[grouped[g].members[2]].duration_ms = 50
        /\ queries[grouped[g].members[3]].duration_ms = 50
        /\ selected[g] = grouped[g].members[2]

\* C5: the representative carries the count, the minimum, the maximum (its own
\* duration) and the mean (sum over count) of the whole group.
C5_GroupStatistics ==
    \A g \in 1..Len(selected) : selected[g] # 0 =>
        LET ms == grouped[g].members
            info == queries[selected[g]].group_info
        IN  /\ info.total_similar_queries = Len(ms)
            /\ \A m \in 1..Len(ms) :
                  /\ info.min_duration_ms <= queries[ms[m]].duration_ms
                  /\ info.max_duration_ms >= queries[ms[m]].duration_ms
            /\ \E m \in 1..Len(ms) : info.min_duration_ms = queries[ms[m]].duration_ms
            /\ info.max_duration_ms = queries[selected[g]].duration_ms
            /\ info.avg_duration_ms.num = SumDurations(queries, ms)
            /\ info.avg_duration_ms.den = Len(ms)

\* the example: shop.orders, {status: "delivered"} of 50 ms and
\* {status: "cancelled"} of 30 ms: one group, count 2, min 30, max 50, avg 40
C5_Witness ==
    /\ Len(queries) = 2
    /\ queries[1].ns = NsOrders /\ queries[2].ns = NsOrders
    /\ queries[1].original_query_filter = StatusDelivered
    /\ queries[2].original_query_filter = StatusCancelled
    /\ queries[1].duration_ms = 50 /\ queries[2].duration_ms = 30
    /\ Len(grouped) = 1 /\ Len(selected) = 1 /\ selected[1] = 1
    /\ queries[1].group_info # Absent
    /\ queries[1].group_info.total_similar_queries = 2
    /\ queries[1].group_info.min_duration_ms = 30
    /\ queries[1].group_info.max_duration_ms = 50
    /\ queries[1].group_info.avg_duration_ms.num
          = 40 * queries[1].group_info.avg_duration_ms.den


(***************************************************************************)
(* SpecCache: the getters and clear_metadata_cache called in any order on  *)
(* a few collections of two databases, while the collections change.       *)
(***************************************************************************)
MaxCalls == 3
MaxChanges == 1

\* database names hold no dot: the driver refuses such a name when the
\* database object is made
DbA == <<"a">>
DbB == <<"b">>
CollC == <<"c">>
CollBC == <<"b", ".", "c">>

\* the (database, collection) pairs called for, each with the field its
\* documents have
Targets ==
    { [db |-> DbA, coll |-> CollBC, field |-> "a"],
      [db |-> DbB, coll |-> CollC, field |-> "b"],
      [db |-> DbA, coll |-> CollC, field |-> "status"] }

IndexOn(field) == D2("name", Str(field \o "_1"), "key", D1(field, IntV("1")))

\* the two contents a collection goes through
Documents(t, ver) ==
    IF ver = 1 THEN <<D1(t.field, IntV("1"))>>
    ELSE <<D1(t.field, IntV("1")), D1(t.field, Str("x"))>>

Indexes(t, ver) ==
    IF ver = 1 THEN <<IndexOn("_id")>> ELSE <<IndexOn("_id"), IndexOn(t.field)>>

CollectionState(t, ver, status) ==
    [docs |-> Documents(t, ver), indexes |-> Indexes(t, ver), status |-> status]

\* the states a collection is found or left in
CollectionStates(t) ==
    { CollectionState(t, 1, status) : status \in {"ok", "denied", "missing"} }
    \cup { CollectionState(t, 2, "ok") }

\* at the start every collection has its first content and at most one of
\* them is locked away
InitialEngines ==
    { e \in [Targets -> UNION { CollectionStates(t) : t \in Targets }] :
        /\ \A t \in Targets :
              e[t] \in { CollectionState(t, 1, "ok"), CollectionState(t, 1, "denied") }
        /\ Cardinality({ t \in Targets : e[t].status # "ok" }) <= 1 }

InitCache ==
    /\ cache = EmptyCache
    /\ engine \in InitialEngines
    /\ now = 0
    /\ nchanges = 0
    /\ log = <<>>
    /\ last = [api |-> "none"]
    /\ SigParked
    /\ GrpParked
    /\ RunParked

Called(api, t, key, o) ==
    [api |-> api, db |-> t.db, coll |-> t.coll, key |-> key, ret |-> o.ret,
     raised |-> o.raised, how |-> o.how]

CallGetSchema(t) ==
    /\ now < MaxCalls
    /\ \E sample \in Samples(engine[t].docs) :
          LET key == cache_key(t.db, t.coll, "schema")
              o == get_collection_schema(cache, engine[t], key, sample, now)
          IN  /\ cache' = o.cache
              /\ last' = Called("schema", t, key, o)
              /\ log' = Append(log, Called("schema", t, key, o))
    /\ now' = now + 1
    /\ UNCHANGED <<engine, nchanges>>
    /\ UNCHANGED <<sigVars, grpVars, runVars>>

CallGetIndexes(t) ==
    /\ now < MaxCalls
    /\ LET key == cache_key(t.db, t.coll, "indexes")
           o == get_collection_indexes(cache, engine[t], key, now)
       IN  /\ cache' = o.cache
           /\ last' = Called("indexes", t, key, o)
           /\ log' = Append(log, Called("indexes", t, key, o))
    /\ now' = now + 1
    /\ UNCHANGED <<engine, nchanges>>
    /\ UNCHANGED <<sigVars, grpVars, runVars>>

CallClear ==
    /\ now < MaxCalls
    /\ cache' = clear_metadata_cache(cache)
    /\ last' = [api |-> "clear"]
    /\ log' = <<>>
    /\ now' = now + 1
    /\ UNCHANGED <<engine, nchanges>>
    /\ UNCHANGED <<sigVars, grpVars, runVars>>

\* the collection is written to, dropped, locked away or cut off
EngineChange(t, new) ==
    /\ nchanges < MaxChanges
    /\ engine[t] # new
    /\ engine' = [engine EXCEPT ![t] = new]
    /\ nchanges' = nchanges + 1
    /\ last' = [api |-> "engine"]
    /\ UNCHANGED <<cache, now, log>>
    /\ UNCHANGED <<sigVars, grpVars, runVars>>

NextCache ==
    \/ \E t \in Targets : CallGetSchema(t)
    \/ \E t \in Targets : CallGetIndexes(t)
    \/ CallClear
    \/ \E t \in Targets : \E new \in CollectionStates(t) : EngineChange(t, new)

SpecCache == InitCache /\ [][NextCache]_vars


\* the calls made for one cache key since the last clear, in order
KeyLog(key) == SelectSeq(log, LAMBDA c : c.key = key)

LoggedKeys == { log[i].key : i \in 1..Len(log) }

\* the calls of h that performed the computation on the database
Computations(h) == { i \in 1..Len(h) : h[i].how # "hit" }

\* C6 as stated: between two clears, two or more calls for a key perform the
\* computation exactly once and all return equal results (calls that raised
\* are left aside).
C6_AsStated ==
    \A key \in LoggedKeys :
        LET h == KeyLog(key)
        IN  Len(h) >= 2 /\ (\A i \in 1..Len(h) : h[i].raised = "")
              => /\ Cardinality(Computations(h)) = 1
                 /\ \A i, j \in 1..Len(h) : h[i].ret = h[j].ret

\* C6 amended: between two clears, for every cache key, a call performs the
\* computation exactly when no earlier call for the key has stored a result:
\* once if the first call reads the collection, and again after each call
\* whose read failed; every call after a stored result returns that result.
C6_CacheIdempotent ==
    \A key \in LoggedKeys :
        LET h == KeyLog(key)
        IN  \A j \in 1..Len(h) :
               /\ h[j].how = "hit" <=> \E i \in 1..(j - 1) : h[i].how = "store"
               /\ \A i \in 1..(j - 1) : h[i].how = "store" => h[j].ret = h[i].ret
               /\ h[1].how = "store" => Computations(h) = {1}

\* a key computed by its first call and served from the cache by two more
C6_Witness ==
    \E key \in LoggedKeys :
        LET h == KeyLog(key)
        IN  /\ Len(h) = 3
            /\ h[1].how = "store" /\ h[2].how = "hit" /\ h[3].how = "hit"
            /\ h[1].ret # EmptySchema
            /\ h[2].ret = h[1].ret /\ h[3].ret = h[1].ret

\* C7: a step other than clear keeps every cache entry as it is, and a getter
\* called for a cached key returns the stored data without computing.
C7_EntriesStable ==
    [][ last'.api # "clear" =>
          /\ \A k \in DOMAIN cache : k \in DOMAIN cache' /\ cache'[k] = cache[k]
          /\ ( /\ now' # now
               /\ last'.key \in DOMAIN cache )
             => /\ last'.ret = cache[last'.key].data
                /\ last'.how = "hit"
                /\ last'.raised = "" ]_vars

\* a schema served from the cache after the collection has changed: it is not
\* the schema the collection has now
C7_Witness ==
    /\ last.api = "schema"
    /\ last.how = "hit"
    /\ \E t \in Targets :
          /\ last.key = cache_key(t.db, t.coll, "schema")
          /\ engine[t].status = "ok"
          /\ last.ret # infer_schema(engine[t].docs)
          /\ last.ret = infer_schema(Documents(t, 1))


(***************************************************************************)
(* SpecRun: run() of main.py, called up to MaxRuns times in one process.   *)
(* The cache is the module's dictionary and outlives a run; between two    *)
(* runs the collections may change.  Before the first run a client of the  *)
(* library may call get_explain_plan itself.                               *)
(***************************************************************************)
MaxRuns == 2

\* MONGO_DB_NAME
DbName == <<"testdb">>

CollOrders == <<"orders">>
CollUsers == <<"users">>

RunTargets ==
    { [db |-> DbName, coll |-> CollOrders, field |-> "status"],
      [db |-> DbName, coll |-> CollUsers, field |-> "status"] }

\* the engines a run may find: both collections readable with their first or
\* their second content, or orders unreadable in one of the three ways
RunEngines ==
    { [t \in RunTargets |-> CollectionState(t, ver, "ok")] : ver \in {1, 2} }
    \cup { [t \in RunTargets |->
              CollectionState(t, 1, IF t.coll = CollOrders THEN status ELSE "ok")] :
            status \in {"denied", "missing", "down"} }

\* db.get_collection(collection_name) as the engine has it
CollectionOf(collection_name) ==
    IF \E t \in DOMAIN engine : t.coll = collection_name
    THEN engine[CHOOSE t \in DOMAIN engine : t.coll = collection_name]
    ELSE [docs |-> <<>>, indexes |-> <<>>, status |-> "missing"]

BaseConfig ==
    [openrouter_api_key |-> TRUE, mongo_mode |-> "local", min_duration_ms |-> 0,
     max_queries_to_analyze |-> 0, exclude_operations |-> {},
     analysis_time_window_minutes |-> 0]

Configs ==
    { BaseConfig,
      [BaseConfig EXCEPT !.min_duration_ms = 40, !.max_queries_to_analyze = 1,
                         !.exclude_operations = {"getmore"}],
      [BaseConfig EXCEPT !.max_queries_to_analyze = 1],
      [BaseConfig EXCEPT !.openrouter_api_key = FALSE] }

NoPayload(ns, op, vol) == Entry(ns, op, vol, Absent, Absent, Absent)
Legacy(ns, vol, f, o) == Entry(ns, "query", vol, Absent, f, o)

\* the contents of system.profile, in storage order
ProfileContents ==
    { <<>>,
      \* two entries of one pattern and one of another, two of them as slow
      <<Legacy(NsOrders, VolFast, StatusCancelled, Absent),
        Legacy(NsOrders, VolSlow, StatusDelivered, Absent),
        Legacy(NsUsers, VolSlow, StatusDelivered, Absent)>>,
      \* a getmore and a query
      <<NoPayload(NsOrders, "getmore", VolSlow),
        Legacy(NsUsers, VolFast, StatusDelivered, Absent)>>,
      \* a find with a projection before a query
      <<Entry(NsOrders, "query", VolSlow,
              Cmd("find", <<KV("filter", StatusDelivered),
                            KV("projection", D1("a", IntV("1")))>>), Absent, Absent),
        Legacy(NsUsers, VolFast, StatusDelivered, Absent)>>,
      \* a namespace without a dot, and no namespace, before a query
      <<NoPayload(NsStr(<<"badnamespace">>), "insert", VolSlow),
        Legacy(NsOrders, VolFast, StatusDelivered, Absent)>>,
      <<NoPayload(None, "command", VolSlow),
        Legacy(NsOrders, VolFast, StatusDelivered, Absent)>>,
      \* an update, an aggregate and a sorted query on two collections
      <<Entry(NsOrders, "update", VolSlow,
              Cmd("update", <<KV("q", StatusDelivered),
                              KV("u", D1("$set", D1("a", IntV("1"))))>>),
              Absent, Absent),
        Entry(NsOrders, "command", VolFast,
              Cmd("aggregate", <<KV("pipeline", List(<<D1("$match", D1("a", IntV("1")))>>))>>),
              Absent, Absent),
        Legacy(NsUsers, VolFast, StatusDelivered, D1("a", IntV("1")))>> }

Profiles ==
    { [status |-> "ok", entries |-> es, clock |-> 3] : es \in ProfileContents }
    \cup { [status |-> status, entries |-> <<>>, clock |-> 3] :
             status \in {"missing", "denied", "down"} }

InitRun ==
    /\ pc = "idle"
    /\ config \in Configs
    /\ env \in Environments
    /\ profile \in Profiles
    /\ client = "none"
    /\ representative_queries = <<>>
    /\ pos = 0
    /\ run = NoRun
    /\ plan = NoCall
    /\ thread = <<>>
    /\ cache = EmptyCache
    /\ engine = [t \in RunTargets |-> CollectionState(t, 1, "ok")]
    /\ now = 0
    /\ nchanges = 0
    /\ log = <<>>
    /\ last = [api |-> "none"]
    /\ queries = <<>>
    /\ grouped = <<>>
    /\ selected = <<>>
    /\ gpc = "parked"
    /\ SigParked

runFrame == <<sigVars, selected, gpc, nchanges, log, config, env, profile, thread>>

\* the local variables of run() are gone once the try block is left
LocalsGone ==
    /\ queries' = <<>>
    /\ grouped' = <<>>
    /\ representative_queries' = <<>>
    /\ pos' = 0

\* an exception other than KeyboardInterrupt leaves the try block
Fails(exc, at) ==
    /\ pc' = "except"
    /\ LocalsGone

\* get_explain_plan called by a client of the library; the function keeps
\* no state, so one call shows what any call does
DirectExplain(q, status) ==
    /\ pc = "idle"
    /\ now = 0
    /\ plan = NoCall
    /\ plan' = [by |-> "client", q |-> q, status |-> status,
                out |-> get_explain_plan(status, q, env)]
    /\ UNCHANGED <<pc, client, representative_queries, pos, run, cache, engine, now,
                   last, queries, grouped>>
    /\ UNCHANGED runFrame

\* main.py:19-27: run() is entered and the configuration validated
RunStart ==
    /\ pc = "idle"
    /\ now < MaxRuns
    /\ now' = now + 1
    /\ engine' \in RunEngines
    /\ client' = "none"
    /\ plan' = NoCall
    /\ last' = [api |-> "none"]
    /\ IF validate_config(config)
       THEN /\ pc' = "clear"
            /\ run' = [NoRun EXCEPT !.no = now + 1, !.outcome = "running"]
       ELSE \* sys.exit(1)
            /\ pc' = "idle"
            /\ run' = [NoRun EXCEPT !.no = now + 1, !.outcome = "config_exit"]
    /\ UNCHANGED <<representative_queries, pos, cache, queries, grouped>>
    /\ UNCHANGED runFrame

\* main.py:30
RunClear ==
    /\ pc = "clear"
    /\ cache' = clear_metadata_cache(cache)
    /\ run' = [run EXCEPT !.clears = @ + 1, !.dropped = Cardinality(DOMAIN cache)]
    /\ last' = [api |-> "clear"]
    /\ pc' = "connect"
    /\ UNCHANGED <<client, representative_queries, pos, plan, engine, now,
                   queries, grouped>>
    /\ UNCHANGED runFrame

\* main.py:33-36: get_mongo_client gives a client or None
RunConnect(connected) ==
    /\ pc = "connect"
    /\ IF connected
       THEN /\ client' = "open"
            /\ pc' = "extract"
            /\ run' = run
       ELSE \* sys.exit(1)
            /\ client' = "none"
            /\ pc' = "idle"
            /\ run' = [run EXCEPT !.outcome = "connect_exit"]
    /\ UNCHANGED <<representative_queries, pos, plan, cache, engine, now, last,
                   queries, grouped>>
    /\ UNCHANGED runFrame

\* main.py:43-53
RunExtract ==
    /\ pc = "extract"
    /\ \E o \in get_slow_queries(profile, config.min_duration_ms,
                                 config.exclude_operations,
                                 config.analysis_time_window_minutes) :
          IF o.raised # ""
          THEN /\ Fails(o.raised, "extract")
               /\ run' = [run EXCEPT !.cause = o.raised, !.failedAt = "extract"]
          ELSE IF o.ret = <<>>
          THEN /\ pc' = "finally"
               /\ run' = [run EXCEPT !.outcome = "empty"]
               /\ LocalsGone
          ELSE /\ pc' = "group"
               /\ queries' = o.ret
               /\ run' = run
               /\ UNCHANGED <<grouped, representative_queries, pos>>
    /\ UNCHANGED <<client, plan, cache, engine, now, last>>
    /\ UNCHANGED runFrame

\* main.py:57-75: grouping, the representative of every group, truncation
RunGroup ==
    /\ pc = "group"
    /\ \E groups \in {group_similar_queries(queries)} :
       \E reps \in {Representatives(queries, groups)} :
           IF \E g \in 1..Len(reps) : reps[g].raised # ""
           THEN /\ Fails("ValueError", "group")
                /\ run' = [run EXCEPT !.cause = "ValueError", !.failedAt = "group"]
           ELSE /\ grouped' = groups
                /\ queries' =
                      [n \in 1..Len(queries) |->
                         IF \E g \in 1..Len(reps) : reps[g].rep = n
                         THEN [queries[n] EXCEPT !.group_info =
                                 reps[CHOOSE g \in 1..Len(reps) : reps[g].rep = n].info]
                         ELSE queries[n]]
                /\ representative_queries' =
                      Truncate([g \in 1..Len(reps) |-> reps[g].rep],
                               config.max_queries_to_analyze)
                /\ pos' = 1
                /\ pc' = "rep"
                /\ run' = [run EXCEPT !.total = Len(representative_queries')]
    /\ UNCHANGED <<client, plan, cache, engine, now, last>>
    /\ UNCHANGED runFrame

\* the representative the loop is at and its collection
Sq == queries[representative_queries[pos]]
collection_name == ns_parts(Sq.ns)[2]

\* main.py:79-93, and 147-149 when the list is exhausted
RunNamespace ==
    /\ pc = "rep"
    /\ IF pos > Len(representative_queries)
       THEN /\ pc' = "finally"
            /\ run' = [run EXCEPT !.outcome = "complete"]
            /\ LocalsGone
       ELSE IF Sq.ns = None
       THEN \* None has no split
            /\ Fails("AttributeError", "namespace")
            /\ run' = [run EXCEPT !.cause = "AttributeError", !.failedAt = "namespace"]
       ELSE IF Len(ns_parts(Sq.ns)) < 2
       THEN /\ pos' = pos + 1
            /\ pc' = "rep"
            /\ run' = [run EXCEPT !.skipped = Append(@, pos)]
            /\ UNCHANGED <<queries, grouped, representative_queries>>
       ELSE /\ pc' = "schema"
            /\ run' = run
            /\ UNCHANGED <<queries, grouped, representative_queries, pos>>
    /\ UNCHANGED <<client, plan, cache, engine, now, last>>
    /\ UNCHANGED runFrame

RunCalled(api, key, o, status, before) ==
    [api |-> api, key |-> key, ret |-> o.ret, raised |-> o.raised, how |-> o.how,
     status |-> status, before |-> before]

Noted(o, status) ==
    [run EXCEPT !.getters = @ + 1,
                !.unreadable = IF o.how = "fail" \/ (o.how = "store" /\ status = "missing")
                               THEN Append(@, pos) ELSE @,
                !.cause = o.raised,
                !.failedAt = IF o.raised # "" THEN "metadata" ELSE ""]

\* main.py:100-101
RunSchema ==
    /\ pc = "schema"
    /\ \E sample \in Samples(CollectionOf(collection_name).docs) :
          LET key == cache_key(DbName, collection_name, "schema")
              coll == CollectionOf(collection_name)
              o == get_collection_schema(cache, coll, key, sample, now)
          IN  /\ cache' = o.cache
              /\ last' = RunCalled("schema", key, o, coll.status, DOMAIN cache)
              /\ run' = Noted(o, coll.status)
              /\ IF o.raised # ""
                 THEN Fails(o.raised, "metadata")
                 ELSE /\ pc' = "indexes"
                      /\ UNCHANGED <<queries, grouped, representative_queries, pos>>
    /\ UNCHANGED <<client, plan, engine, now>>
    /\ UNCHANGED runFrame

\* main.py:104-107
RunIndexes ==
    /\ pc = "indexes"
    /\ LET key == cache_key(DbName, collection_name, "indexes")
           coll == CollectionOf(collection_name)
           o == get_collection_indexes(cache, coll, key, now)
       IN  /\ cache' = o.cache
           /\ last' = RunCalled("indexes", key, o, coll.status, DOMAIN cache)
           /\ run' = Noted(o, coll.status)
           /\ IF o.raised # ""
              THEN Fails(o.raised, "metadata")
              ELSE /\ pc' = "explain"
                   /\ UNCHANGED <<queries, grouped, representative_queries, pos>>
    /\ UNCHANGED <<client, plan, engine, now>>
    /\ UNCHANGED runFrame

\* main.py:110-145: the plan, then the prompt and the recommendation, which
\* raise nothing
RunExplain ==
    /\ pc = "explain"
    /\ IF Sq.op_type = Str("getmore")
       THEN /\ plan' = plan
            /\ run' = [run EXCEPT !.analysed = Append(@, pos),
                                  !.unplanned = Append(@, pos)]
            /\ pos' = pos + 1
            /\ pc' = "rep"
            /\ UNCHANGED <<queries, grouped, representative_queries>>
       ELSE LET status == CollectionOf(collection_name).status
                out == get_explain_plan(status, Sq, env)
            IN  /\ plan' = [by |-> "run", q |-> Sq, status |-> status, out |-> out]
                /\ IF out.raised # ""
                   THEN /\ Fails(out.raised, "explain")
                        /\ run' = [run EXCEPT !.cause = out.raised,
                                              !.failedAt = "explain"]
                   ELSE /\ run' = [run EXCEPT !.analysed = Append(@, pos)]
                        /\ pos' = pos + 1
                        /\ pc' = "rep"
                        /\ UNCHANGED <<queries, grouped, representative_queries>>
    /\ UNCHANGED <<client, cache, engine, now, last>>
    /\ UNCHANGED runFrame

\* main.py:151-152: the user interrupts the analysis
RunInterrupt ==
    /\ pc \in {"extract", "group", "rep", "schema", "indexes", "explain"}
    /\ pc' = "finally"
    /\ run' = [run EXCEPT !.outcome = "interrupted"]
    /\ LocalsGone
    /\ UNCHANGED <<client, plan, cache, engine, now, last>>
    /\ UNCHANGED runFrame

\* main.py:153-156
RunExcept ==
    /\ pc = "except"
    /\ pc' = "finally"
    /\ run' = [run EXCEPT !.outcome = "failed"]
    /\ UNCHANGED <<client, representative_queries, pos, plan, cache, engine, now,
                   last, queries, grouped>>
    /\ UNCHANGED runFrame

RunFinallyLeavesOpenMutant ==
    /\ pc = "finally"
    /\ client' = client
    /\ run' = [run EXCEPT !.outcome = "left_open"]
    /\ pc' = "idle"
    /\ UNCHANGED <<representative_queries, pos, plan, cache, engine, now, last,
                   queries, grouped>>
    /\ UNCHANGED runFrame

\* main.py:157-161
RunFinally ==
    /\ pc = "finally"
    /\ client' = "closed"
    /\ run' = [run EXCEPT !.closes = @ + 1]
    /\ pc' = "idle"
    /\ UNCHANGED <<representative_queries, pos, plan, cache, engine, now, last,
                   queries, grouped>>
    /\ UNCHANGED runFrame

NextRun ==
    \/ \E q \in Records : \E status \in EngineStatus : DirectExplain(q, status)
    \/ RunStart
    \/ RunClear
    \/ \E connected \in BOOLEAN : RunConnect(connected)
    \/ RunExtract
    \/ RunGroup
    \/ RunNamespace
    \/ RunSchema
    \/ RunIndexes
    \/ RunExplain
    \/ RunInterrupt
    \/ RunExcept
    \/ RunFinally

SpecRun == InitRun /\ [][NextRun]_vars

IsGetter(call) == call.api \in {"schema", "indexes"}

\* C8 (as stated): run() invokes clear_metadata_cache exactly once per run:
\* every run that has ended has invoked it once.
C8_AsStated == (pc = "idle" /\ run.no > 0) => run.clears = 1

\* C8: a run whose configuration is valid invokes clear_metadata_cache exactly
\* once, before its first getter call; a run whose configuration is invalid
\* exits without clearing and without calling a getter.  Every entry a
\* getter returns from the cache during a run was computed in that run, and a
\* getter call removes no entry of the cache.
C8_ClearOncePerRun ==
    /\ run.clears <= 1
    /\ run.getters > 0 => run.clears = 1
    /\ (pc = "idle" /\ run.no > 0 /\ run.outcome # "config_exit") => run.clears = 1
    /\ run.outcome = "config_exit" => run.clears = 0 /\ run.getters = 0
    /\ (IsGetter(last) /\ last.how = "hit") =>
          /\ last.key \in DOMAIN cache
          /\ cache[last.key].timestamp = run.no
          /\ cache[last.key].data = last.ret
    /\ IsGetter(last) => last.before \subseteq DOMAIN cache

\* a second run has dropped the entries of the first and a getter has
\* answered from an entry of the second
C8_Witness ==
    /\ run.no = 2
    /\ run.dropped > 0
    /\ IsGetter(last)
    /\ last.how = "hit"

Unreadable(status) == status \in {"denied", "missing"}

C9_Returns ==
    (IsGetter(last) /\ Unreadable(last.status)) =>
        /\ last.raised = ""
        /\ last.ret = IF last.api = "schema" THEN EmptySchema ELSE EmptyIndexes

C9_NoAbort ==
    /\ run.failedAt = "metadata" => run.cause = "ConnectionFailure"
    /\ run.outcome = "complete" => Len(run.analysed) + Len(run.skipped) = run.total

C9_GoesOn ==
    (/\ pc \in {"schema", "indexes"}
     /\ Unreadable(CollectionOf(collection_name).status)
     /\ run'.outcome # "interrupted")
        => pc' = IF pc = "schema" THEN "indexes" ELSE "explain"

\* C9: a getter called for a collection that is locked away or does not exist
\* returns the empty schema / the empty index list and raises nothing; run()
\* then goes on with the next step of the same representative, a metadata
\* step aborts the run only with a failure that is not an operation failure,
\* and a run that reaches the end of its list has analysed or skipped every
\* representative.
C9_MetadataFailureLocal == [](C9_Returns /\ C9_NoAbort) /\ [][C9_GoesOn]_vars

\* a completed run in which a collection was unreadable for one
\* representative, that representative and a later one were both analysed
C9_Witness ==
    /\ pc = "idle"
    /\ run.outcome = "complete"
    /\ run.unreadable # <<>>
    /\ \E a, b \in 1..Len(run.analysed) :
          /\ run.analysed[a] = run.unreadable[1]
          /\ run.analysed[b] > run.unreadable[1]

\* the records get_explain_plan is not made for
Unsupported(q) ==
    \/ IsOp(q, {"getmore"})
    \/ IsOp(q, {"insert"})
    \/ IsOp(q, {"command"}) /\ ~Has(Get(q.command_details, Dict(<<>>)), "aggregate")
    \/ /\ IsOp(q, {"query", "find"})
       /\ Get(q.original_query_filter, None) = None
       /\ Get(q.original_query_sort, None) = None
       /\ Get(q.original_query_orderby, None) = None
       /\ Get(q.original_query_projection, None) = None

\* C10: for a getmore record, an insert, a command without an aggregate or a
\* query without any detail, get_explain_plan returns None, raises nothing
\* and sends no request to the engine, whatever the state of the collection;
\* run() does not call it for a getmore representative.
C10_UnsupportedGivesNoPlan ==
    /\ (plan.by # "none" /\ Unsupported(plan.q)) =>
          /\ plan.out.ret = None
          /\ plan.out.raised = ""
          /\ plan.out.requests = <<>>
          /\ ~plan.out.wrote
    /\ plan.by = "run" => ~IsOp(plan.q, {"getmore"})

\* get_explain_plan has been called for a getmore record on a readable
\* collection
C10_Witness ==
    /\ plan.by = "client"
    /\ IsOp(plan.q, {"getmore"})
    /\ plan.status = "ok"

\* C11 (as stated): get_explain_plan propagates no failure of building or
\* requesting the plan while the engine can be reached: every call returns
\* without raising, and no run() is aborted in its explain step.
C11_AsStated ==
    /\ (plan.by # "none" /\ plan.status # "down") => plan.out.raised = ""
    /\ (run.failedAt = "explain" /\ plan.by = "run") => plan.status = "down"


(***************************************************************************)
(* SpecExtract: get_slow_queries called once on a profile of up to         *)
(* MaxEntries entries, with a threshold, a list of excluded operations and *)
(* a time window.                                                          *)
(***************************************************************************)
MaxEntries == 3

VolSlowest ==
    [millis |-> 100, ts |-> 3, planSummary |-> Str("COLLSCAN"),
     nscannedObjects |-> IntV("5000"), nscanned |-> IntV("5000")]

\* the entries the profiles are made of: every operation kind, every payload
\* shape, three durations and three times
ExtractPool ==
    { Legacy(NsOrders, VolSlow, StatusDelivered, D1("a", IntV("1"))),
      Legacy(NsOrders, VolFast, StatusCancelled, Absent),
      NoPayload(NsOrders, "getmore", VolSlow),
      NoPayload(NsUsers, "insert", VolFast),
      Entry(NsOrders, "query", VolSlowest,
            Cmd("find", <<KV("filter", StatusDelivered), KV("sort", D1("a", IntV("1"))),
                          KV("projection", D1("a", IntV("1")))>>), Absent, Absent),
      Entry(NsOrders, "command", VolFast,
            Cmd("aggregate", <<KV("pipeline", List(<<D1("$match", D1("a", IntV("1")))>>))>>),
            Absent, Absent),
      Entry(NsOrders, "command", VolSlow,
            Cmd("count", <<KV("query", StatusDelivered)>>), Absent, Absent),
      Entry(NsOrders, "update", VolSlow,
            Cmd("update", <<KV("q", StatusDelivered),
                            KV("u", D1("$set", D1("a", IntV("1"))))>>), Absent, Absent),
      Entry(NsUsers, "delete", VolSlowest,
            Cmd("delete", <<KV("q", StatusDelivered)>>), Absent, Absent) }

AllKinds == { AllOperations[i] : i \in 1..Len(AllOperations) }

ExtractConfigs ==
    { [BaseConfig EXCEPT !.min_duration_ms = m, !.exclude_operations = x,
                         !.analysis_time_window_minutes = w] :
        m \in {0, 50}, x \in {{}, {"getmore"}, {"query", "command"}, AllKinds},
        w \in {0, 1} }

InitExtract ==
    /\ pc = "call"
    /\ profile \in
          { [status |-> "ok", entries |-> es, clock |-> 3] :
              es \in UNION { [1..n -> ExtractPool] : n \in 0..MaxEntries } }
          \cup { [status |-> status, entries |-> <<>>, clock |-> 3] :
                   status \in {"missing", "denied", "down"} }
    /\ config \in ExtractConfigs
    /\ queries = <<>>
    /\ last = [api |-> "none"]
    /\ env = <<>>
    /\ client = "none"
    /\ representative_queries = <<>>
    /\ pos = 0
    /\ run = NoRun
    /\ plan = NoCall
    /\ thread = <<>>
    /\ cache = <<>> /\ engine = <<>> /\ now = 0 /\ nchanges = 0 /\ log = <<>>
    /\ grouped = <<>> /\ selected = <<>> /\ gpc = "parked"
    /\ SigParked

\* get_slow_queries(db, min_duration_ms, exclude_operations, time_window_minutes)
CallGetSlowQueries ==
    /\ pc = "call"
    /\ \E o \in get_slow_queries(profile, config.min_duration_ms,
                                 config.exclude_operations,
                                 config.analysis_time_window_minutes) :
          /\ queries' = o.ret
          /\ last' = [api |-> "get_slow_queries", raised |-> o.raised,
                      cursor |-> o.cursor]
    /\ pc' = "returned"
    /\ UNCHANGED <<sigVars, grouped, selected, gpc, cache, engine, now, nchanges, log,
                   config, env, profile, client, representative_queries, pos, run, plan,
                   thread>>

NextExtract == CallGetSlowQueries

SpecExtract == InitExtract /\ [][NextExtract]_vars

Returned == pc = "returned" /\ last.raised = "" /\ profile.status = "ok"

\* how many times x occurs in the sequence
Occurrences(seq, x) == Cardinality({ i \in 1..Len(seq) : seq[i] = x })

KindExcluded(op) == \E x \in config.exclude_operations : op = Str(x)

SlowEnough(e) == e.millis >= config.min_duration_ms

Recent(e) ==
    config.analysis_time_window_minutes > 0
        => e.ts >= profile.clock - config.analysis_time_window_minutes

NonIncreasing ==
    \A i \in 1..(Len(queries) - 1) : queries[i].duration_ms >= queries[i + 1].duration_ms

\* the entries of the profile that satisfy keep, each as the record made of it
Kept(keep(_)) ==
    SelectSeq(ExtractAll(profile.entries),
              LAMBDA r : \E i \in 1..Len(profile.entries) :
                            /\ extract_query_info(profile.entries[i]) = r
                            /\ keep(profile.entries[i]))

\* the records returned whose kind is not excluded
Among == SelectSeq(queries, LAMBDA r : ~KindExcluded(r.op_type))

SameRecords(a, b) ==
    /\ Len(a) = Len(b)
    /\ \A i \in 1..Len(a) : Occurrences(a, a[i]) = Occurrences(b, a[i])

\* C12 (as stated): among the entries of non-excluded kinds the list returned
\* holds exactly those of duration >= min_duration_ms, in non-increasing order
\* of duration.
C12_AsStated ==
    Returned =>
        /\ SameRecords(Among, Kept(LAMBDA e : SlowEnough(e) /\ ~KindExcluded(e.op)))
        /\ NonIncreasing

\* C12: among the entries of non-excluded kinds the list returned holds exactly
\* those of duration >= min_duration_ms whose timestamp is within the time
\* window when time_window_minutes > 0, none below the threshold, in
\* non-increasing order of duration.
C12_ThresholdAndOrder ==
    Returned =>
        /\ SameRecords(Among,
                       Kept(LAMBDA e : SlowEnough(e) /\ Recent(e) /\ ~KindExcluded(e.op)))
        /\ \A i \in 1..Len(queries) : queries[i].duration_ms >= config.min_duration_ms
        /\ NonIncreasing

\* a profile with an entry below the threshold, one exactly at it and a
\* slower one: the last two are returned
C12_Witness ==
    /\ Returned
    /\ config.exclude_operations = {}
    /\ \E i \in 1..Len(profile.entries) :
          profile.entries[i].millis < config.min_duration_ms
    /\ Len(queries) = 2
    /\ queries[2].duration_ms = config.min_duration_ms
    /\ queries[1].duration_ms > config.min_duration_ms

\* C13 (as stated): whatever exclude_operations is, no record returned by
\* get_slow_queries has an op_type contained in it.
C13_AsStated ==
    Returned => \A i \in 1..Len(queries) : ~KindExcluded(queries[i].op_type)

\* the names of the detail fields a record carries
PresentDetail(r) ==
    { name \in {"filter", "sort", "orderby", "projection", "pipeline", "update"} :
        CASE name = "filter" -> r.original_query_filter # Absent
          [] name = "sort" -> r.original_query_sort # Absent
          [] name = "orderby" -> r.original_query_orderby # Absent
          [] name = "projection" -> r.original_query_projection # Absent
          [] name = "pipeline" -> r.original_query_pipeline # Absent
          [] OTHER -> r.original_query_update # Absent }

\* the shape of the payload of an entry
PayloadShape(e) ==
    IF e.command # Absent
    THEN CASE Has(e.command, "find") -> "find"
           [] Has(e.command, "aggregate") -> "aggregate"
           [] Has(e.command, "update") -> "update"
           [] Has(e.command, "delete") -> "delete"
           [] OTHER -> "none"
    ELSE IF e.query # Absent THEN "legacy" ELSE "none"

ShapeFields(shape) ==
    CASE shape = "find" -> {"filter", "sort", "projection"}
      [] shape = "aggregate" -> {"pipeline"}
      [] shape = "update" -> {"filter", "update"}
      [] shape = "delete" -> {"filter"}
      [] shape = "legacy" -> {"filter", "orderby"}
      [] OTHER -> {}

\* the record is the one of the entry: its fixed fields are the entry's and
\* its detail is that of the payload
RecordOf(r, e) ==
    /\ r.ns = e.ns
    /\ r.op_type = e.op
    /\ r.duration_ms = e.millis
    /\ r.ts = e.ts
    /\ PresentDetail(r) \subseteq ShapeFields(PayloadShape(e))
    /\ PayloadShape(e) = "find" =>
          /\ r.original_query_filter = DGet(e.command, "filter")
          /\ r.original_query_sort = DGet(e.command, "sort")
          /\ r.original_query_projection = DGet(e.command, "projection")
    /\ PayloadShape(e) = "aggregate" =>
          r.original_query_pipeline = DGet(e.command, "pipeline")
    /\ PayloadShape(e) = "update" =>
          /\ r.original_query_filter = DGet(e.command, "q")
          /\ r.original_query_update = DGet(e.command, "u")
    /\ PayloadShape(e) = "delete" => r.original_query_filter = DGet(e.command, "q")
    /\ PayloadShape(e) = "legacy" => r.original_query_filter = e.query

\* C14: get_slow_queries returns one record per entry the cursor delivers, in
\* the order of delivery; the record of an entry whose payload has none of the
\* shapes find, aggregate, update, delete, legacy query carries no
\* original_query_* field, the record of any other entry carries only the
\* fields of its shape, with the values of the payload; the extraction of
\* a readable profile raises nothing.
C14_OneRecordPerEntry ==
    (pc = "returned" /\ profile.status = "ok") =>
        /\ last.raised = ""
        /\ Len(queries) = Len(last.cursor)
        /\ \A i \in 1..Len(queries) : RecordOf(queries[i], last.cursor[i])

\* an entry without a recognised payload and one with a payload, both
\* returned
C14_Witness ==
    /\ Returned
    /\ \E i, j \in 1..Len(queries) :
          /\ PayloadShape(last.cursor[i]) = "none"
          /\ PresentDetail(queries[i]) = {}
          /\ PayloadShape(last.cursor[j]) = "update"
          /\ PresentDetail(queries[j]) = {"filter", "update"}

\* C15 (as stated): with system.profile absent or unreadable get_slow_queries
\* raises nothing and returns the empty list, and the run ends as one that
\* found nothing to analyse, without any grouping, metadata, explain or
\* recommendation step.
C15_AsStated ==
    profile.status \in {"missing", "denied"} =>
        /\ run.failedAt # "extract"
        /\ pc \notin {"group", "rep", "schema", "indexes", "explain"}
        /\ (pc = "idle" /\ client = "closed" /\ run.outcome # "interrupted")
              => run.outcome = "empty"

\* C16 (as stated): a representative whose namespace gives no collection
\* name, for want of a dot or of a namespace, is skipped without an error:
\* no run() fails in the step that splits the namespace.
C16_AsStated == run.failedAt # "namespace"

\* the loop of run() is under way: its lists are in place
InLoop == pc \in {"rep", "schema", "indexes", "explain"}

Smaller(a, b) == IF a < b THEN a ELSE b

StrictlyIncreasing(seq) == \A i \in 1..(Len(seq) - 1) : seq[i] < seq[i + 1]

\* C17: in run() every group lists its members in input order, the groups
\* come in the order in which their first members appear in the input, the
\* k-th representative is a member of the k-th group, the list analysed has
\* min(MAX_QUERIES_TO_ANALYZE, number of groups) representatives when the
\* limit is positive and one per group when it is 0, and the loop takes them
\* in that order.
C17_OrderingContract ==
    InLoop =>
        /\ \A g \in 1..Len(grouped) : StrictlyIncreasing(grouped[g].members)
        /\ StrictlyIncreasing([g \in 1..Len(grouped) |-> grouped[g].members[1]])
        /\ Len(representative_queries) =
              IF config.max_queries_to_analyze > 0
              THEN Smaller(config.max_queries_to_analyze, Len(grouped))
              ELSE Len(grouped)
        /\ \A k \in 1..Len(representative_queries) :
              \E n \in 1..Len(grouped[k].members) :
                 grouped[k].members[n] = representative_queries[k]
        /\ run.total = Len(representative_queries)
        /\ StrictlyIncreasing(run.analysed \o <<pos>>)
        /\ pos <= Len(representative_queries) + 1

\* two groups, the members of the first apart in the input, and a limit of 1
\* that leaves the first representative only
C17_Witness ==
    /\ InLoop
    /\ config.max_queries_to_analyze = 1
    /\ Len(grouped) = 2
    /\ grouped[1].members = <<1, 3>>
    /\ Len(representative_queries) = 1


(***************************************************************************)
(* SpecSchema: get_collection_schema called on a collection of up to       *)
(* MaxDocs documents whose field a takes values of every type.             *)
(***************************************************************************)
MaxDocs == 3

SchemaTarget == [db |-> DbName, coll |-> CollOrders, field |-> "a"]

SampleValues ==
    { IntV("1"), IntV("2"), BoolV("true"), Str("x"), Scalar("float", "1.5"), None,
      D1("b", IntV("1")), List(<<IntV("1")>>) }

\* a document has the field a and, or, the field b, or is empty
SampleDocuments ==
    { D1("a", v) : v \in SampleValues }
    \cup { D2("a", IntV("1"), "b", Str("x")), D1("b", IntV("1")), Dict(<<>>) }

InitSchema ==
    /\ cache = EmptyCache
    /\ engine \in
          { (SchemaTarget :> [docs |-> docs, indexes |-> <<IndexOn("_id")>>,
                              status |-> "ok"]) :
              docs \in UNION { [1..n -> SampleDocuments] : n \in 0..MaxDocs } }
    /\ now = 0
    /\ nchanges = 0
    /\ log = <<>>
    /\ last = [api |-> "none"]
    /\ SigParked
    /\ GrpParked
    /\ RunParked

NextSchema == CallGetSchema(SchemaTarget)

SpecSchema == InitSchema /\ [][NextSchema]_vars

\* the documents of the collection and the types field takes in them
SampledDocs == engine[SchemaTarget].docs
TypesOf(field) ==
    { TypeName(DGet(SampledDocs[i], field)) :
        i \in { j \in 1..Len(SampledDocs) : Has(SampledDocs[j], field) } }

SchemaReturned == last.api = "schema" /\ last.raised = ""

\* C18 (as stated): the schema returned tags a field "mixed" when the field
\* takes values of two different types in the sampled documents, and with
\* another tag when it takes values of one type only.
C18_AsStated ==
    SchemaReturned =>
        \A field \in {"a", "b"} :
            /\ Cardinality(TypesOf(field)) >= 2 => last.ret[field] = "mixed"
            /\ Cardinality(TypesOf(field)) = 1 => last.ret[field] # "mixed"


\* the (database, collection) pairs for which an artifact of the kind has
\* been computed and stored since the last clear
StoredPairs(kind) ==
    { <<log[i].db, log[i].coll>> :
        i \in { j \in 1..Len(log) : log[j].api = kind /\ log[j].how = "store" } }

\* C19: in every state reached by get_collection_schema, get_collection_indexes
\* and clear_metadata_cache calls, get_cache_stats gives total_entries =
\* schema_entries + index_entries, schema_entries the number of (database,
\* collection) pairs with a stored schema, index_entries the number of pairs
\* with a stored index list; right after a clear the three are 0.
C19_CacheStats ==
    LET stats == get_cache_stats(cache)
    IN  /\ stats.total_entries = stats.schema_entries + stats.index_entries
        /\ stats.schema_entries = Cardinality(StoredPairs("schema"))
        /\ stats.index_entries = Cardinality(StoredPairs("indexes"))
        /\ last.api = "clear" =>
              /\ stats.total_entries = 0
              /\ stats.schema_entries = 0
              /\ stats.index_entries = 0

\* the schemas of two collections and the indexes of one are stored
C19_Witness ==
    /\ get_cache_stats(cache).schema_entries = 2
    /\ get_cache_stats(cache).index_entries = 1
    /\ get_cache_stats(cache).total_entries = 3


(***************************************************************************)
(* SpecConc: two callers in the getters at the same time, as when the      *)
(* representatives are processed in parallel.  A getter runs in three      *)
(* steps: the membership test on _metadata_cache, the round trip to the    *)
(* engine, the assignment to _metadata_cache; nothing in db_utils.py holds *)
(* a lock across them.                                                     *)
(***************************************************************************)
Threads == {"t1", "t2"}

Idle == [pc |-> "idle"]

InitConc ==
    /\ thread = [th \in Threads |-> Idle]
    /\ cache = EmptyCache
    /\ engine \in InitialEngines
    /\ now = 0
    /\ nchanges = 0
    /\ log = <<>>
    /\ last = [api |-> "none"]
    /\ pc = "parked" /\ config = <<>> /\ env = <<>> /\ profile = <<>>
    /\ client = "none" /\ representative_queries = <<>> /\ pos = 0
    /\ run = NoRun /\ plan = NoCall
    /\ SigParked
    /\ GrpParked

concFrame == <<sigVars, grpVars, pc, config, env, profile, client, representative_queries,
               pos, run, plan, engine, nchanges>>

\* the getter is entered and builds its cache key
ConcCall(th, api, t) ==
    /\ thread[th].pc = "idle"
    /\ now < MaxCalls
    /\ thread' = [thread EXCEPT ![th] =
                     [pc |-> "check", api |-> api, t |-> t,
                      key |-> cache_key(t.db, t.coll, api)]]
    /\ now' = now + 1
    /\ UNCHANGED <<cache, log, last>>
    /\ UNCHANGED concFrame

\* if cache_key in _metadata_cache: return _metadata_cache[cache_key]["data"]
ConcCheck(th) ==
    /\ thread[th].pc = "check"
    /\ LET f == thread[th]
       IN  IF f.key \in DOMAIN cache
           THEN /\ thread' = [thread EXCEPT ![th] = Idle]
                /\ last' = [api |-> f.api, by |-> th, key |-> f.key,
                            ret |-> cache[f.key].data, raised |-> "", how |-> "hit"]
                /\ log' = Append(log, last')
           ELSE /\ thread' = [thread EXCEPT ![th].pc = "compute"]
                /\ UNCHANGED <<log, last>>
    /\ UNCHANGED <<cache, now>>
    /\ UNCHANGED concFrame

\* what the getter does once the membership test has failed, on the engine
AfterMiss(f, sample) ==
    IF f.api = "schema"
    THEN get_collection_schema(EmptyCache, engine[f.t], f.key, sample, now)
    ELSE get_collection_indexes(EmptyCache, engine[f.t], f.key, now)

\* collection.aggregate([{"$sample": ...}]) / collection.index_information()
ConcCompute(th) ==
    /\ thread[th].pc = "compute"
    /\ LET f == thread[th]
       IN  \E sample \in Samples(engine[f.t].docs) :
              LET o == AfterMiss(f, sample)
              IN  /\ last' = [api |-> f.api, by |-> th, key |-> f.key, ret |-> o.ret,
                              raised |-> o.raised,
                              how |-> IF o.how = "store" THEN "computed" ELSE o.how]
                  /\ log' = Append(log, last')
                  /\ thread' = [thread EXCEPT ![th] =
                                   IF o.how = "store"
                                   THEN [f EXCEPT !.pc = "store"] @@ [data |-> o.ret]
                                   ELSE Idle]
    /\ UNCHANGED <<cache, now>>
    /\ UNCHANGED concFrame

\* _metadata_cache[cache_key] = {"data": ..., "timestamp": time.time()}
ConcStore(th) ==
    /\ thread[th].pc = "store"
    /\ LET f == thread[th]
       IN  cache' = (f.key :> [data |-> f.data, timestamp |-> now]) @@ cache
    /\ thread' = [thread EXCEPT ![th] = Idle]
    /\ UNCHANGED <<now, log, last>>
    /\ UNCHANGED concFrame

NextConc ==
    \/ \E th \in Threads : \E api \in {"schema", "indexes"} : \E t \in Targets :
          ConcCall(th, api, t)
    \/ \E th \in Threads : ConcCheck(th)
    \/ \E th \in Threads : ConcCompute(th)
    \/ \E th \in Threads : ConcStore(th)

SpecConc == InitConc /\ [][NextConc]_vars

\* the computations that ran to the end for a key
CompletedComputations(key) ==
    { i \in 1..Len(log) : log[i].key = key /\ log[i].how = "computed" }

\* C20: with two callers in the getters at the same time, the computation of a
\* key that was not cached when they started runs at most once.
C20_AsStated ==
    \A key \in LoggedKeys : Cardinality(CompletedComputations(key)) <= 1


\* a record of a find: a query or find operation with a filter, a sort, an
\* orderby or a projection captured
FindShaped(q) ==
    /\ IsOp(q, {"find", "query"})
    /\ \/ Get(q.original_query_filter, None) # None
       \/ Get(q.original_query_sort, None) # None
       \/ Get(q.original_query_orderby, None) # None
       \/ Get(q.original_query_projection, None) # None

\* C21 (as stated): for every find-shaped record on a readable collection,
\* get_explain_plan raises nothing and returns the plan the engine gives for a
\* find with the captured filter and the captured sort.
C21_AsStated ==
    (plan.by # "none" /\ plan.status = "ok" /\ FindShaped(plan.q)) =>
        /\ plan.out.raised = ""
        /\ plan.out.ret # None
        /\ plan.out.ret.k = "plan"
        /\ plan.out.ret.of.kind = "find"
        /\ Get(plan.q.original_query_filter, None) # None =>
              plan.out.ret.of.filter = plan.q.original_query_filter


\* C22 (as stated): for an update record get_explain_plan sends one request,
\* an update batch of one element with the captured filter and the captured
\* update document, the inert $set document standing in when none was
\* captured; for a delete record it sends one delete batch of one element with
\* the captured filter.
C22_AsStated ==
    /\ (plan.by # "none" /\ IsOp(plan.q, {"update"})) =>
          /\ Len(plan.out.requests) = 1
          /\ plan.out.requests[1].kind = "update"
          /\ Get(plan.q.original_query_filter, None) # None =>
                plan.out.requests[1].q = plan.q.original_query_filter
          /\ plan.out.requests[1].u =
                IF Get(plan.q.original_query_update, None) = None
                THEN InertUpdate
                ELSE plan.q.original_query_update
    /\ (plan.by # "none" /\ IsOp(plan.q, {"delete"})) =>
          /\ Len(plan.out.requests) = 1
          /\ plan.out.requests[1].kind = "delete"
          /\ Get(plan.q.original_query_filter, None) # None =>
                plan.out.requests[1].q = plan.q.original_query_filter


(***************************************************************************)
(* SpecNorm: normalize_query_structure called once on a value nested up to *)
(* MaxDepth deep.                                                          *)
(***************************************************************************)
MaxDepth == 3

NormScalars ==
    { IntV("1"), Str("x"), BoolV("true"), Scalar("float", "1.5"), None }

NormKeys == {"a", "$gt", "$in", "$regex", "$exists", "$match"}

RECURSIVE NormValues(_)
\* scalars, and over the values one level less deep: the sequences of one
\* element and the mappings of one key; over scalars also the sequences of
\* two elements and the mappings of two keys
NormValues(d) ==
    IF d = 0 THEN NormScalars
    ELSE LET sub == NormValues(d - 1)
         IN  sub
             \cup { List(<<>>), Dict(<<>>) }
             \cup { List(<<x>>) : x \in sub }
             \cup { List(<<x, y>>) : x \in NormScalars, y \in NormScalars }
             \cup { D1(key, x) : key \in NormKeys, x \in sub }
             \cup { D2(k1, x, k2, y) :
                      k1 \in {"a", "$in"}, k2 \in {"b", "$gt"},
                      x \in {IntV("1"), Str("x")}, y \in {IntV("1"), None} }

InitNorm ==
    /\ recA \in NormValues(MaxDepth)
    /\ recB = None
    /\ sigA = <<>>
    /\ sigB = <<>>
    /\ pc = "call"
    /\ last = [api |-> "none"]
    /\ config = <<>> /\ env = <<>> /\ profile = <<>>
    /\ client = "none" /\ representative_queries = <<>> /\ pos = 0
    /\ run = NoRun /\ plan = NoCall /\ thread = <<>>
    /\ cache = <<>> /\ engine = <<>> /\ now = 0 /\ nchanges = 0 /\ log = <<>>
    /\ GrpParked

\* normalize_query_structure(query_obj)
CallNormalize ==
    /\ pc = "call"
    /\ last' = [api |-> "normalize_query_structure",
                ret |-> normalize_query_structure(recA)]
    /\ pc' = "returned"
    /\ UNCHANGED <<sigVars, grpVars, cache, engine, now, nchanges, log, config, env,
                   profile, client, representative_queries, pos, run, plan, thread>>

NextNorm == CallNormalize

SpecNorm == InitNorm /\ [][NextNorm]_vars

TypeNames == {"int", "str", "bool", "float", "NoneType", "dict", "list"}

Placeholder(name) == Str("<" \o name \o ">")

KeysOf(v) == { v.items[i].key : i \in 1..Len(v.items) }

RECURSIVE StructureKept(_, _)
\* n keeps the structure of v
StructureKept(v, n) ==
    CASE v.k = "dict" ->
            /\ n.k = "dict"
            /\ Len(n.items) = Len(v.items)
            /\ KeysOf(n) = KeysOf(v)
            /\ \A i \in 1..Len(v.items) :
                  LET key == v.items[i].key
                      value == v.items[i].val
                      res == DGet(n, key)
                  IN  IF key \in ComparisonKeys
                      THEN IF value.k # "list"
                           THEN /\ res \in { Placeholder(t) : t \in TypeNames }
                                /\ res = Placeholder(TypeName(value))
                           ELSE IF value.items = <<>>
                           THEN res = Placeholder("empty_array")
                           ELSE res = Placeholder(TypeName(value.items[1]) \o "_array")
                      ELSE IF key \in PatternKeys \cup StructuralKeys
                      THEN TRUE
                      ELSE StructureKept(value, res)
      [] v.k = "list" ->
            /\ n.k = "list"
            /\ Len(n.items) = Len(v.items)
            /\ \A i \in 1..Len(v.items) : StructureKept(v.items[i], n.items[i])
      [] OTHER ->
            /\ n \in { Placeholder(t) : t \in TypeNames }
            /\ n = Placeholder(TypeName(v))

RECURSIVE EqualExceptUnder(_, _, _, _)
\* x and y are the same document but for the values under the keys of keys,
\* which are compared only where under is false
EqualExceptUnder(x, y, keys, under) ==
    \/ under
    \/ /\ x.k = y.k
       /\ CASE x.k = "scalar" -> x = y
            [] x.k = "list" ->
                  /\ Len(x.items) = Len(y.items)
                  /\ \A i \in 1..Len(x.items) :
                        EqualExceptUnder(x.items[i], y.items[i], keys, FALSE)
            [] x.k = "dict" ->
                  /\ Len(x.items) = Len(y.items)
                  /\ \A i \in 1..Len(x.items) :
                        /\ x.items[i].key = y.items[i].key
                        /\ EqualExceptUnder(x.items[i].val, y.items[i].val, keys,
                                            x.items[i].key \in keys)
            [] OTHER -> TRUE

\* the records agree in everything the signature reads but the filter, and
\* their filters are different documents that agree outside the keys of keys
FiltersDifferOnlyUnder(a, b, keys) ==
    /\ a.ns = b.ns /\ a.op_type = b.op_type /\ a.type = b.type
    /\ \A i \in 2..Len(DetailFields(a)) : DetailFields(a)[i] = DetailFields(b)[i]
    /\ a.original_query_filter # b.original_query_filter
    /\ EqualExceptUnder(a.original_query_filter, b.original_query_filter, keys, FALSE)

\* C24: two records whose filters differ only in a value under $exists, $type
\* or $size have different signatures; two records whose filters differ only
\* in a value under $regex, $text or $where have the same signature.
C24_StructuralKeptPatternDropped ==
    /\ (Signed /\ FiltersDifferOnlyUnder(recA, recB, StructuralKeys)) => sigA # sigB
    /\ (Signed /\ FiltersDifferOnlyUnder(recA, recB, PatternKeys)) => sigA = sigB

\* one pair of records told apart by the value under $exists
C24_Witness ==
    /\ Signed
    /\ recA.original_query_filter = D1("a", D1("$exists", BoolV("true")))
    /\ recB.original_query_filter = D1("a", D1("$exists", BoolV("false")))
    /\ FiltersDifferOnlyUnder(recA, recB, StructuralKeys)
    /\ sigA # sigB

\* one pair of records of one signature whose regular expressions differ
C24_WitnessPattern ==
    /\ Signed
    /\ recA.original_query_filter = D1("a", D1("$regex", Str("^x")))
    /\ recB.original_query_filter = D1("a", D1("$regex", Str("y$")))
    /\ FiltersDifferOnlyUnder(recA, recB, PatternKeys)
    /\ sigA = sigB


SchemaTags == {"object", "array", "string", "int", "float", "boolean", "null", "mixed"}

\* the tag of a value by its own type
TagOfType(name) ==
    CASE name = "dict" -> "object"
      [] name = "list" -> "array"
      [] name = "str" -> "string"
      [] name = "int" -> "int"
      [] name = "float" -> "float"
      [] name = "bool" -> "boolean"
      [] name = "NoneType" -> "null"
      [] OTHER -> name

\* C25 (as stated): every tag of the schema returned is one of object, array,
\* string, int, float, boolean, null, mixed, and a field that takes values of
\* one type only is tagged by that type: a mapping object, a sequence array, a
\* string string, an integer int, a float float, a boolean boolean, a null
\* null.
C25_AsStated ==
    SchemaReturned =>
        \A field \in DOMAIN last.ret :
            /\ last.ret[field] \in SchemaTags
            /\ \A name \in TypesOf(field) :
                  TypesOf(field) = {name} => last.ret[field] = TagOfType(name)


\* the largest duration of group g
GroupMax(g) == MaxDuration(queries, grouped[g].members)

\* C26: in run() the list of records is non-increasing in duration_ms, the
\* representative of every group is the first member of the group, the list
\* of representatives is non-increasing in duration_ms, and no group cut off
\* by MAX_QUERIES_TO_ANALYZE has a larger maximum duration than a group kept.
C26_SortedRepresentatives ==
    InLoop =>
        /\ \A i \in 1..(Len(queries) - 1) :
              queries[i].duration_ms >= queries[i + 1].duration_ms
        /\ \A k \in 1..Len(representative_queries) :
              /\ representative_queries[k] = grouped[k].members[1]
              /\ queries[representative_queries[k]].duration_ms = GroupMax(k)
        /\ \A k \in 1..(Len(representative_queries) - 1) :
              queries[representative_queries[k]].duration_ms
                 >= queries[representative_queries[k + 1]].duration_ms
        /\ \A k \in 1..Len(representative_queries) :
              \A g \in (Len(representative_queries) + 1)..Len(grouped) :
                 GroupMax(g) <= GroupMax(k)

\* two groups, the first of two members of different durations, the second
\* cut off by a limit of 1
C26_Witness ==
    /\ InLoop
    /\ Len(grouped) = 2
    /\ Len(grouped[1].members) = 2
    /\ queries[grouped[1].members[1]].duration_ms
          > queries[grouped[1].members[2]].duration_ms
    /\ config.max_queries_to_analyze = 1
    /\ representative_queries = <<grouped[1].members[1]>>


\* the step is a getter call that returned the empty result because the read
\* of the collection failed
FailedGetterStep ==
    /\ now' = now + 1
    /\ last'.api \in {"schema", "indexes"}
    /\ last'.how = "fail"

\* such a step stores nothing and touches no entry
FailureStoresNothing ==
    FailedGetterStep =>
        /\ cache' = cache
        /\ last'.key \notin DOMAIN cache'
        /\ get_cache_stats(cache') = get_cache_stats(cache)

\* the call that follows a failed one for the same key is not served from the
\* cache
ComputesAgainAfterFailure ==
    \A key \in LoggedKeys :
        \A n \in 1..(Len(KeyLog(key)) - 1) :
            KeyLog(key)[n].how = "fail" => KeyLog(key)[n + 1].how # "hit"

\* C27: a getter call that returns the empty result because reading the
\* collection failed stores no entry for its key and leaves every other entry
\* and the cache statistics as they were, and the next call for the key
\* performs the computation again.
C27_FailureLeavesCache ==
    []ComputesAgainAfterFailure /\ [][FailureStoresNothing]_vars

\* with one entry stored, a call fails for another key and the next call for
\* that key computes and stores
C27_Witness ==
    /\ get_cache_stats(cache).total_entries = 2
    /\ \E key \in LoggedKeys :
          /\ Len(KeyLog(key)) = 2
          /\ KeyLog(key)[1].how = "fail"
          /\ KeyLog(key)[2].how = "store"
          /\ Len(log) = 3
          /\ log[1].key # key


\* database names, collection names (with and without dots, and ending like
\* a kind) and the two kinds
KeyTriples ==
    { [db |-> d, coll |-> c, kind |-> kind] :
        d \in {DbA, DbB, <<"schema">>},
        c \in {CollC, CollBC, <<"a", ".", "b">>, <<"c", ".", "schema">>,
               <<"c", ".", "indexes">>, <<"schema">>},
        kind \in {"schema", "indexes"} }

\* the key of the last getter call is the key of no other triple
KeyOfLastCallIsItsOwn ==
    last.api \in {"schema", "indexes"} =>
        \A t \in KeyTriples :
            cache_key(t.db, t.coll, t.kind) = last.key =>
                t = [db |-> last.db, coll |-> last.coll, kind |-> last.api]

\* every call served from the cache returns what an earlier call for the same
\* database, collection and kind computed and stored
HitsAreOwnArtifacts ==
    \A j \in 1..Len(log) :
        log[j].how = "hit" =>
            \E i \in 1..(j - 1) :
                /\ log[i].how = "store"
                /\ log[i].db = log[j].db
                /\ log[i].coll = log[j].coll
                /\ log[i].api = log[j].api
                /\ log[i].ret = log[j].ret

\* C28: different (database, collection, kind) triples have different cache
\* keys, also when the collection name holds dots, so a getter returns from
\* the cache only what was computed for its own database, collection and kind.
C28_KeysInjective ==
    /\ \A t1, t2 \in Targets : \A k1, k2 \in {"schema", "indexes"} :
          cache_key(t1.db, t1.coll, k1) = cache_key(t2.db, t2.coll, k2)
             => t1 = t2 /\ k1 = k2
    /\ KeyOfLastCallIsItsOwn
    /\ HitsAreOwnArtifacts

\* the schemas of collection c of two databases are stored and the one of
\* database b is then served from the cache
C28_Witness ==
    /\ Len(log) = 3
    /\ log[1].how = "store" /\ log[1].api = "schema"
    /\ log[1].db = DbA /\ log[1].coll = CollC
    /\ log[2].how = "store" /\ log[2].api = "schema"
    /\ log[2].db = DbB /\ log[2].coll = CollC
    /\ log[3].how = "hit" /\ log[3].api = "schema"
    /\ log[3].db = DbB /\ log[3].coll = CollC
    /\ log[3].ret = log[2].ret /\ log[3].ret # log[1].ret


\* a call of select_representative_query that changed something
SelectStep == gpc = "grouped" /\ gpc' = "grouped"

\* the call leaves the groups and the list as they are but for the group_info
\* of one record, which is a member of a group and the one returned for it
SelectChangesGroupInfoOnly ==
    SelectStep =>
        /\ grouped' = grouped
        /\ Len(queries') = Len(queries)
        /\ \E g \in 1..Len(grouped) :
              LET r == selected'[g]
              IN  /\ \E n \in 1..Len(grouped[g].members) : grouped[g].members[n] = r
                  /\ \A h \in 1..Len(selected) : h # g => selected'[h] = selected[h]
                  /\ \A i \in 1..Len(queries) : i # r => queries'[i] = queries[i]
                  /\ queries'[r] =
                        [queries[r] EXCEPT !.group_info = queries'[r].group_info]
                  /\ queries'[r].group_info # Absent
        /\ \A i \in 1..Len(queries) :
              get_query_signature(queries'[i]) = get_query_signature(queries[i])

\* a second call for a group returns the record and the statistics of the
\* first call
SelectAgainGivesTheSame ==
    \A g \in 1..Len(selected) : selected[g] # 0 =>
        LET again == select_representative_query(queries, grouped[g].members)
        IN  /\ again.raised = ""
            /\ again.rep = selected[g]
            /\ again.info = queries[selected[g]].group_info

\* C29: select_representative_query changes the group_info of the record it
\* returns and nothing else: the groups, the other members and the other
\* fields of the representative stay as they are, the record returned is the
\* member of the group itself, no signature changes, and a second call for
\* the group returns the same record with the same statistics.
C29_SelectFrame ==
    []SelectAgainGivesTheSame /\ [][SelectChangesGroupInfoOnly]_vars

\* the representatives of two groups chosen, the first group of two members
C29_Witness ==
    /\ gpc = "grouped"
    /\ Len(grouped) = 2
    /\ Len(grouped[1].members) = 2
    /\ selected[1] # 0 /\ selected[2] # 0
    /\ queries[selected[1]].group_info # Absent
    /\ \E n \in 1..2 :
          /\ grouped[1].members[n] # selected[1]
          /\ queries[grouped[1].members[n]].group_info = Absent


\* the steps run() takes by itself once it is entered, but for the grouping
RunSteps ==
    \/ RunClear
    \/ \E connected \in BOOLEAN : RunConnect(connected)
    \/ RunExtract
    \/ RunNamespace
    \/ RunSchema
    \/ RunIndexes
    \/ RunExplain
    \/ RunExcept
    \/ RunFinally

NextRunOnly == RunStart \/ RunSteps \/ RunGroup \/ RunInterrupt

\* run() alone, as one thread: while it has a step to take it takes one, and
\* the grouping, which is enabled whenever run() is at it, returns
SpecRunFair ==
    /\ InitRun
    /\ [][NextRunOnly]_vars
    /\ WF_vars(RunSteps)
    /\ []<>(pc # "group")

\* the client is closed at most once, a run that has ended after it obtained
\* a client has closed it, and a closed client is only found between runs
ClosedOnce ==
    /\ run.closes <= 1
    /\ client = "open" => run.closes = 0 /\ pc # "idle"
    /\ client = "closed" => run.closes = 1 /\ pc = "idle"
    /\ (pc = "idle" /\ run.outcome \in {"empty", "complete", "interrupted", "failed"})
          => client = "closed"

\* no step of the loop is taken with a closed client
NoStepAfterClose ==
    client = "closed" => pc' \notin {"rep", "schema", "indexes", "explain"}

\* C30: every run() that obtained a client ends with the client closed
\* exactly once, whether it found no slow query, completed, was interrupted or
\* failed with an exception, and processes no representative afterwards.
C30_ClientClosed ==
    /\ []ClosedOnce
    /\ [][NoStepAfterClose]_vars
    /\ (client = "open") ~> (client = "closed")

\* a run interrupted after its first representative has closed its client
C30_Witness ==
    /\ pc = "idle"
    /\ client = "closed"
    /\ run.outcome = "interrupted"
    /\ run.analysed # <<>>
    /\ run.closes = 1

\* a run that failed with an exception has closed its client
C30_WitnessFailed ==
    /\ pc = "idle"
    /\ client = "closed"
    /\ run.outcome = "failed"
    /\ run.closes = 1

====
